---------------------------- MODULE Spec2Model ----------------------------
(***************************************************************************)
(* Boundr background service worker: the usage clock (TimeKeeper), the     *)
(* persisted records (StorageManager) and the command handlers of          *)
(* TwitterTimeLimitService, as one state machine.                          *)
(*                                                                         *)
(* Time is the value of Date.now() in milliseconds.  Every handler runs to *)
(* completion as one step, except TimeKeeper.tick, which is split at its   *)
(* await of chrome.idle.queryState: a tick that has read the clock and the *)
(* anchor stays in pendingTicks until the host answers, and other handlers *)
(* (and other ticks) run in between.                                       *)
(* Where a claim is about an interleaving, further handlers are split at   *)
(* their awaits in the same way: updateTrackingImmediate, update of the    *)
(* StorageManager, and ensureContentScriptAndSendMessage.                  *)
(***************************************************************************)
EXTENDS Integers, Sequences, FiniteSets, TLC

VARIABLES
  now,            \* Date.now()
  today,          \* getDateKey(): the current calendar date, as a day number
  tabs,           \* the in-scope tabs: "none"; "inactive": not the active tab
                  \* of its window; "background": active tab of a window
                  \* without focus; "focused": active tab, focused window
  popupOpen,      \* timekeeper.popupConnections.size > 0
  settings,       \* storage record 'settings'
  usageToday,     \* storage record 'usageToday'
  flags,          \* storage record 'flags'
  timekeeper,     \* the TimeKeeper instance
  globalService,  \* the TwitterTimeLimitService instance
  pendingTicks,   \* tick() invocations suspended at chrome.idle.queryState
  snoozeTimer,    \* the setTimeout scheduled by handleSnoozeRequest
  history,        \* bookkeeping: what has happened so far; no handler reads it
  lib,            \* the StorageManager of src/lib/storage.js, for one key
  suspended,      \* async calls suspended at an await, by kind, and the
                  \* timers of debouncedUpdateTracking and of the popup ports
  dispatch        \* directives to the in-scope tab: requests and deliveries

vars == <<now, today, tabs, popupOpen, settings, usageToday, flags, timekeeper,
          globalService, pendingTicks, snoozeTimer, history, lib, suspended,
          dispatch>>

-----------------------------------------------------------------------------
(* Bounds of the model *)

StartTime == 1000000       \* Date.now() when the service worker starts
MaxTime == 1174000         \* the clock does not advance beyond this
MaxDay == 2                \* calendar days covered
MaxPendingTicks == 2       \* tick() invocations suspended at the same time
MaxCommands == 2           \* commands the user sends in one run
MaxStoreTime == 1015100    \* the horizon of the runs of the StorageManager
MaxWrites == 3             \* calls of its set and update in one run
MaxFailures == 2           \* writes that chrome.storage rejects in one run

\* The clock advances by this much between two events: 58000 is the lock
\* threshold of a one-minute limit (60000 - tickBuffer) and lies above its
\* nudge threshold (48000); twice 58000 lies between the nudge threshold
\* (96000) and the lock threshold (118000) of a two-minute limit.
TickDelta == 58000
Deltas == {TickDelta}

\* Half of it, for the runs in which a write to storage fails: a failed save
\* at StartTime + 29000 is retried no earlier than 120 s later, at
\* StartTime + 174000
ShortDelta == 29000

\* Values a user can give to dailyLimitMin and cooldownMin
Limits == {1, 2}
Cooldowns == {1, 2}

\* Passcodes a user can set and enter
Passcodes == {1, 2}

-----------------------------------------------------------------------------
(* Values *)

Undefined == 0 - 1         \* a field that is absent from a record
Null == 0                  \* null / 0 timestamps: both are falsy in the code

tickBuffer == 2000
tickFrequency == 1000      \* the period of the tick timer
usageSaveInterval == 60000
writeBackoff == 120000     \* no save is tried for this long after a failed one

Min(a, b) == IF a < b THEN a ELSE b

\* { ...old, ...upd }
Merge(old, upd) ==
  [k \in DOMAIN old |-> IF k \in DOMAIN upd THEN upd[k] ELSE old[k]]

DEFAULT_SETTINGS ==
  [dailyLimitMin |-> 30, cooldownMin |-> 5, allowSnooze |-> TRUE,
   enabled |-> FALSE, passcodeHash |-> Null, resetHourLocal |-> 4,
   mode |-> "softlock"]

DEFAULT_FLAGS ==
  [nudged |-> FALSE, locked |-> FALSE, pausedToday |-> FALSE,
   snoozed |-> FALSE, snoozeUsedToday |-> FALSE, frozenTimeUsed |-> Undefined]

NoTimer == [pending |-> FALSE, due |-> 0, cooldownMs |-> 0]

\* the directives sent to tabs
Kinds == {"SHOW_SOFT_LOCK", "SHOW_CLOSE_COUNTDOWN", "HIDE_OVERLAY"}

\* no directive requested yet: pendingMessages and tabsWithOverlays of the
\* service are empty, no call of ensureContentScriptAndSendMessage is
\* suspended (deliveries), no lock has its dispatch still to do (lockPaths),
\* the tab shows no overlay (screen); sent alternates between 0 and 1 with
\* every call of chrome.tabs.sendMessage
NoDispatch ==
  [pendingMessages |-> {}, tabsWithOverlays |-> FALSE, deliveries |-> {},
   lockPaths |-> {}, screen |-> "none", sent |-> 0]

-----------------------------------------------------------------------------
(* TimeKeeper *)

\* TimeKeeper.syncWithStorage
syncWithStorage(tk, us, fl) ==
  IF tk.isInitialized THEN tk
  ELSE [tk EXCEPT !.currentUsageMs = us.millisActive,
                  !.isPaused = fl.pausedToday,
                  !.isLocked = fl.locked,
                  !.isInitialized = TRUE,
                  !.lastTickTime =
                     IF us.millisActive = 0 THEN Null ELSE tk.lastTickTime]

\* TimeKeeper.start
start(tk, us, fl) ==
  IF tk.tickInterval \/ tk.isLocked THEN tk
  ELSE LET synced == syncWithStorage(tk, us, fl)
       IN IF synced.isLocked THEN synced
          ELSE [synced EXCEPT !.lastTickTime = now, !.tickInterval = TRUE]

\* TimeKeeper.stop: the in-memory part
stop(tk) ==
  [tk EXCEPT !.tickInterval = FALSE, !.isActive = FALSE, !.lastTickTime = Null]

\* TimeKeeper.stop: the flush of the in-memory counter to 'usageToday'
stopFlush(tk, us) ==
  IF tk.currentUsageMs > 0
    THEN [us EXCEPT !.millisActive = tk.currentUsageMs]
    ELSE us

\* TimeKeeper.setActive
setActive(tk, active) ==
  IF tk.isActive = active THEN tk
  ELSE IF now - tk.lastActiveChange < 200 THEN tk
  ELSE IF tk.isLocked /\ active THEN tk
  ELSE [tk EXCEPT !.lastActiveChange = now,
                  !.isActive = active,
                  !.lastTickTime = IF active THEN now ELSE tk.lastTickTime]

\* the limit the clock counts against
effectiveLimitMillis(se, fl) ==
  IF fl.snoozed THEN se.cooldownMin * 60 * 1000
                ELSE se.dailyLimitMin * 60 * 1000

\* TimeKeeper.triggerNudge: the flags after it, and whether a nudge went out
triggerNudge(se, fl) ==
  IF ~se.enabled \/ ~se.allowSnooze \/ fl.nudged \/ fl.pausedToday
       \/ fl.snoozed \/ fl.locked
    THEN [flags |-> fl, sent |-> FALSE]
    ELSE [flags |-> [fl EXCEPT !.nudged = TRUE], sent |-> TRUE]

\* triggerLimit freezing the usage counted so far instead of the limit
triggerLimitFreezingUsage(tk, us, se, fl) ==
  IF ~se.enabled \/ fl.locked \/ fl.pausedToday
    THEN [tk |-> tk, usage |-> us, flags |-> fl]
  ELSE IF tk.currentUsageMs >= effectiveLimitMillis(se, fl) - tickBuffer
    THEN [tk |-> stop([tk EXCEPT !.isLocked = TRUE]),
          usage |-> stopFlush(tk, us),
          flags |-> [fl EXCEPT !.locked = TRUE, !.nudged = FALSE,
                               !.frozenTimeUsed = tk.currentUsageMs]]
  ELSE [tk |-> tk, usage |-> us, flags |-> fl]

\* TimeKeeper.triggerLimit
triggerLimit(tk, us, se, fl) ==
  IF ~se.enabled \/ fl.locked \/ fl.pausedToday
    THEN [tk |-> tk, usage |-> us, flags |-> fl]
  ELSE IF tk.currentUsageMs >= effectiveLimitMillis(se, fl) - tickBuffer
    THEN [tk |-> stop([tk EXCEPT !.isLocked = TRUE]),
          usage |-> stopFlush(tk, us),
          flags |-> [fl EXCEPT !.locked = TRUE, !.nudged = FALSE,
                               !.frozenTimeUsed = effectiveLimitMillis(se, fl)]]
  ELSE [tk |-> tk, usage |-> us, flags |-> fl]

\* TimeKeeper.checkLimits, called with the usage record the tick computed
checkLimits(tk, us, se, fl, millisActive) ==
  IF ~se.enabled \/ fl.pausedToday \/ fl.locked
    THEN [tk |-> tk, usage |-> us, flags |-> fl, sent |-> FALSE]
  ELSE
    LET limit == effectiveLimitMillis(se, fl)
        nudge == IF ~fl.snoozed /\ ~fl.nudged /\ 10 * millisActive >= 8 * limit
                   THEN triggerNudge(se, fl)
                   ELSE [flags |-> fl, sent |-> FALSE]
    IN IF millisActive >= limit - tickBuffer
         THEN LET r == triggerLimit(tk, us, se, nudge.flags)
              IN [tk |-> r.tk, usage |-> r.usage, flags |-> r.flags,
                  sent |-> nudge.sent]
         ELSE [tk |-> tk, usage |-> us, flags |-> nudge.flags,
               sent |-> nudge.sent]

-----------------------------------------------------------------------------
(* TwitterTimeLimitService.updateTrackingImmediate *)

\* chrome.tabs.query with active: true finds an in-scope tab
hasActiveXTabAnywhere == tabs \in {"background", "focused"}

suppressStops(sv) ==
  sv.suppressStopUntil # Null /\ now < sv.suppressStopUntil

\* shouldTrack without the override of the suppress-stop window
shouldTrackIgnoringGrace(tk, sv, se, fl, popup) ==
  LET allowDueToPopup == popup /\ hasActiveXTabAnywhere
  IN (tabs = "focused" \/ allowDueToPopup) /\ se.enabled
       /\ ~fl.pausedToday /\ ~fl.locked /\ ~tk.isLocked

shouldTrack(tk, sv, se, fl, popup) ==
  LET allowDueToPopup == popup /\ hasActiveXTabAnywhere
      wanted == (tabs = "focused" \/ allowDueToPopup) /\ se.enabled
                  /\ ~fl.pausedToday /\ ~fl.locked /\ ~tk.isLocked
  IN IF ~wanted /\ suppressStops(sv)
       THEN sv.isTracking \/ allowDueToPopup
       ELSE wanted

updateTrackingImmediate(tk, us, sv, se, fl, popup) ==
  LET track == shouldTrack(tk, sv, se, fl, popup)
      sv1 == [sv EXCEPT !.isTracking = track]
  IN IF fl.pausedToday THEN [tk |-> tk, usage |-> us, svc |-> sv1]
     ELSE IF fl.locked
       THEN [tk |-> stop(tk), usage |-> stopFlush(tk, us), svc |-> sv1]
     ELSE IF track
       THEN LET tk1 == IF ~tk.tickInterval /\ ~tk.isLocked
                         THEN start(tk, us, fl) ELSE tk
                tk2 == IF ~tk1.isPaused /\ ~tk1.isLocked
                         THEN setActive(tk1, TRUE) ELSE tk1
            IN [tk |-> tk2, usage |-> us, svc |-> sv1]
     ELSE IF sv.isTracking /\ ~suppressStops(sv)
       THEN [tk |-> stop(tk), usage |-> stopFlush(tk, us), svc |-> sv1]
     ELSE [tk |-> tk, usage |-> us, svc |-> sv1]

-----------------------------------------------------------------------------
(* Initial state: the service worker has just been constructed; the user   *)
(* has enabled the extension and chosen a limit and a cooldown.            *)

InitFrom(allowSnooze, enabled) ==
  /\ now = StartTime
  /\ today = 1
  /\ tabs = "none"
  /\ popupOpen = FALSE
  /\ settings = [dailyLimitMin |-> 1, cooldownMin |-> 1,
                 allowSnooze |-> allowSnooze,
                 enabled |-> enabled, passcodeHash |-> Null,
                 resetHourLocal |-> DEFAULT_SETTINGS.resetHourLocal,
                 mode |-> DEFAULT_SETTINGS.mode]
  /\ usageToday = [millisActive |-> 0, dateKey |-> 1]
  /\ flags = DEFAULT_FLAGS
  /\ timekeeper = [isActive |-> FALSE, lastTickTime |-> Null,
                   tickInterval |-> FALSE, currentUsageMs |-> 0,
                   isInitialized |-> FALSE, isPaused |-> FALSE,
                   isLocked |-> FALSE, lastActiveChange |-> 0,
                   lastUsageSave |-> 0, writeBackoffUntil |-> 0]
  /\ globalService = [isTracking |-> FALSE, snoozeInProgress |-> FALSE,
                      lastSnoozeRequest |-> 0, lastPauseToggle |-> 0,
                      lastResetRequestAt |-> 0, lastSettingsUpdate |-> 0,
                      suppressStopUntil |-> Null]
  /\ pendingTicks = <<>>
  /\ snoozeTimer = NoTimer
  /\ history = [nudges |-> 0, superseded |-> FALSE, commands |-> 0,
                snoozedOn |-> 0, snoozedFromLock |-> FALSE,
                countedUpTo |-> 0, bypass |-> "none",
                alarmOn |-> 1, writeFailed |-> FALSE,
                recomputedInGrace |-> FALSE,
                libWrites |-> 0, libFailures |-> 0,
                libAccepted |-> [a |-> 0, b |-> 0]]
  /\ lib = [stored |-> [a |-> 0, b |-> 0], cache |-> <<>>, pending |-> <<>>,
            backoffUntil |-> 0, flushTimer |-> Null]
  /\ suspended = [updates |-> <<>>, tracking |-> <<>>, debounce |-> FALSE,
                  popupStartTimeout |-> FALSE, popupUpdateInterval |-> FALSE]
  /\ dispatch = NoDispatch

\* the user has enabled the extension
InitWith(allowSnooze) == InitFrom(allowSnooze, TRUE)

\* the user has left snooze allowed (its default)
Init == InitWith(TRUE)

\* the extension is enabled, or disabled as DEFAULT_SETTINGS has it
InitStart == \E enabled \in BOOLEAN : InitFrom(TRUE, enabled)

\* the user has left snooze allowed or has switched it off
InitSnooze == \E allowSnooze \in BOOLEAN : InitWith(allowSnooze)

-----------------------------------------------------------------------------
(* Bookkeeping for the properties *)

\* a nudge directive went out
noteNudge(h, sent) ==
  IF sent THEN [h EXCEPT !.nudges = Min(@ + 1, 2)] ELSE h

\* a tick has counted the time up to t
noteCounted(h, t) == [h EXCEPT !.countedUpTo = IF t > @ THEN t ELSE @]

\* the usage counter was reset to 0: nudges are counted from here
noteUsageReset(h) == [h EXCEPT !.nudges = 0]

\* the user sends a command
mayCommand == history.commands < MaxCommands
noteCommand(h) == [h EXCEPT !.commands = @ + 1]

\* a pause, manual reset or rollover happened after a snooze was granted and
\* before its cooldown has elapsed
noteSuperseded(h) ==
  IF snoozeTimer.pending /\ now < snoozeTimer.due
    THEN [h EXCEPT !.superseded = TRUE] ELSE h

\* a snooze was granted: on which day, and whether the clock was locked
noteSnooze(h) ==
  [h EXCEPT !.superseded = FALSE, !.snoozedOn = today,
            !.snoozedFromLock = flags.locked]

-----------------------------------------------------------------------------
(* Environment *)

\* a stamp that the code only compares with Date.now() - window is the same
\* as the initial 0 once the window has passed
Expire(stamp, window, t) == IF t - stamp >= window THEN 0 ELSE stamp

\* time passes
Advance(d) ==
  /\ now + d <= MaxTime
  /\ now' = now + d
  /\ timekeeper' =
       [timekeeper EXCEPT !.lastActiveChange = Expire(@, 200, now + d)]
  /\ globalService' =
       [globalService EXCEPT
          !.lastSnoozeRequest = Expire(@, 2000, now + d),
          !.lastPauseToggle = Expire(@, 1000, now + d),
          !.lastResetRequestAt = Expire(@, 1500, now + d),
          !.lastSettingsUpdate = Expire(@, 1000, now + d),
          !.suppressStopUntil = IF now + d >= @ THEN Null ELSE @]
  /\ UNCHANGED <<dispatch, suspended, lib, today, tabs, popupOpen, settings, usageToday, flags,
                 pendingTicks, snoozeTimer, history>>

\* the calendar date changes
DayChange ==
  /\ today < MaxDay
  /\ today' = today + 1
  /\ UNCHANGED <<dispatch, suspended, lib, now, tabs, popupOpen, settings, usageToday, flags, timekeeper,
                 globalService, pendingTicks, snoozeTimer, history>>

\* The active in-scope tab changes (navigation, tab switch, window focus);
\* the recompute the listeners schedule is UpdateTracking
TabSignal(t) ==
  /\ t # tabs
  /\ tabs' = t
  /\ UNCHANGED <<dispatch, suspended, lib, now, today, popupOpen, settings, usageToday, flags, timekeeper,
                 globalService, pendingTicks, snoozeTimer, history>>

\* updateTrackingImmediate, run by a listener or by the debounce timer
updateTracking ==
  LET r == updateTrackingImmediate(timekeeper, usageToday, globalService,
                                   settings, flags, popupOpen)
  IN /\ timekeeper' = r.tk
     /\ usageToday' = r.usage
     /\ globalService' = r.svc
     /\ UNCHANGED <<suspended, lib, now, today, tabs, popupOpen, settings, flags, pendingTicks,
                    snoozeTimer, history>>

\* the same where the directives to the tab are left out of account
UpdateTracking == updateTracking /\ UNCHANGED dispatch

\* updateTrackingImmediate run while the suppress-stop window is open
GraceRecompute ==
  LET r == updateTrackingImmediate(timekeeper, usageToday, globalService,
                                   settings, flags, popupOpen)
  IN /\ suppressStops(globalService)
     /\ timekeeper' = r.tk
     /\ usageToday' = r.usage
     /\ globalService' = r.svc
     /\ history' = [history EXCEPT !.recomputedInGrace = TRUE]
     /\ UNCHANGED <<dispatch, suspended, lib, now, today, tabs, popupOpen, settings,
                    flags, pendingTicks, snoozeTimer>>

\* chrome.runtime.onConnect (popup-realtime) and the port's onDisconnect
PopupConnect ==
  /\ ~popupOpen
  /\ popupOpen' = TRUE
  /\ LET r == updateTrackingImmediate(timekeeper, usageToday, globalService,
                                      settings, flags, TRUE)
     IN /\ timekeeper' = r.tk
        /\ usageToday' = r.usage
        /\ globalService' = r.svc
  /\ UNCHANGED <<dispatch, suspended, lib, now, today, tabs, settings, flags, pendingTicks, snoozeTimer,
                 history>>

PopupDisconnect ==
  /\ popupOpen
  /\ popupOpen' = FALSE
  /\ UNCHANGED <<dispatch, suspended, lib, now, today, tabs, settings, usageToday, flags, timekeeper,
                 globalService, pendingTicks, snoozeTimer, history>>

\* handleMessage USER_ACTIVITY
UserActivity ==
  /\ hasActiveXTabAnywhere
  /\ ~timekeeper.isPaused
  /\ timekeeper' =
       setActive([timekeeper EXCEPT !.lastActiveChange = now - 300], TRUE)
  /\ UNCHANGED <<dispatch, suspended, lib, now, today, tabs, popupOpen, settings, usageToday, flags,
                 globalService, pendingTicks, snoozeTimer, history>>

-----------------------------------------------------------------------------
(* TimeKeeper.tick *)

\* tick() up to its await of chrome.idle.queryState
tickBegin ==
  /\ timekeeper.tickInterval
  /\ timekeeper.isActive /\ timekeeper.lastTickTime # Null
  /\ now - timekeeper.lastTickTime >= 100
  /\ IF timekeeper.isLocked \/ ~settings.enabled \/ flags.locked
          \/ flags.pausedToday
       THEN /\ timekeeper' = [timekeeper EXCEPT !.lastTickTime = now]
            /\ UNCHANGED pendingTicks
       ELSE /\ pendingTicks' =
                 Append(pendingTicks,
                        [now |-> now,
                         deltaTime |-> now - timekeeper.lastTickTime,
                         dateKey |-> usageToday.dateKey])
            /\ UNCHANGED timekeeper
  /\ UNCHANGED <<dispatch, suspended, lib, now, today, tabs, popupOpen, settings, usageToday, flags,
                 globalService, snoozeTimer, history>>

\* tick() is called (setInterval, or the timekeeper_tick alarm) while no other
\* invocation is suspended
TickBegin ==
  /\ pendingTicks = <<>>
  /\ tickBegin

\* tick() is called while an earlier invocation is still suspended
TickOverlap ==
  /\ pendingTicks # <<>>
  /\ Len(pendingTicks) < MaxPendingTicks
  /\ tickBegin

\* the suspended invocation t of tick() is to save the usage
saveDue(tk, t) ==
  /\ t.now >= tk.writeBackoffUntil
  /\ t.now - tk.lastUsageSave >= usageSaveInterval

\* tick() dropping the interval of a tick whose save fails
tickResultLosingTime(t, writeOk) ==
  LET save == saveDue(timekeeper, t)
      counted == IF save /\ ~writeOk THEN timekeeper
                 ELSE [timekeeper EXCEPT !.currentUsageMs = @ + t.deltaTime]
      saved == IF save /\ writeOk
                 THEN [millisActive |-> counted.currentUsageMs,
                       dateKey |-> t.dateKey]
                 ELSE usageToday
      anchored == [counted EXCEPT
                     !.lastUsageSave = IF save THEN t.now ELSE @,
                     !.writeBackoffUntil =
                        IF ~save THEN @
                        ELSE IF writeOk THEN 0 ELSE t.now + writeBackoff,
                     !.lastTickTime = t.now]
  IN checkLimits(anchored, saved, settings, flags, anchored.currentUsageMs)

\* tick() from the answer of chrome.idle.queryState to its end: what the
\* suspended invocation t makes of the state it finds; writeOk tells whether
\* storage.updateUsageToday succeeds if the tick calls it
tickResult(t, writeOk) ==
  LET counted == [timekeeper EXCEPT !.currentUsageMs = @ + t.deltaTime]
      save == saveDue(timekeeper, t)
      saved == IF save /\ writeOk
                 THEN [millisActive |-> counted.currentUsageMs,
                       dateKey |-> t.dateKey]
                 ELSE usageToday
      anchored == [counted EXCEPT
                     !.lastUsageSave = IF save THEN t.now ELSE @,
                     !.writeBackoffUntil =
                        IF ~save THEN @
                        ELSE IF writeOk THEN 0 ELSE t.now + writeBackoff,
                     !.lastTickTime = t.now]
  IN checkLimits(anchored, saved, settings, flags, anchored.currentUsageMs)

\* tick() that takes a locked screen for an active user
tickResumeCountingLocked(idleState) ==
  /\ pendingTicks # <<>>
  /\ pendingTicks' = Tail(pendingTicks)
  /\ IF idleState = "idle"
       THEN /\ timekeeper' =
                 [timekeeper EXCEPT !.lastTickTime = Head(pendingTicks).now]
            /\ UNCHANGED <<usageToday, flags, history>>
       ELSE LET r == tickResult(Head(pendingTicks), TRUE)
            IN /\ timekeeper' = r.tk
               /\ usageToday' = r.usage
               /\ flags' = r.flags
               /\ history' = noteCounted(noteNudge(history, r.sent),
                                          Head(pendingTicks).now)
  /\ UNCHANGED <<suspended, lib, now, today, tabs, popupOpen, settings, globalService,
                 snoozeTimer>>

tickResume(idleState) ==
  /\ pendingTicks # <<>>
  /\ pendingTicks' = Tail(pendingTicks)
  /\ IF idleState \in {"idle", "locked"}
       THEN /\ timekeeper' =
                 [timekeeper EXCEPT !.lastTickTime = Head(pendingTicks).now]
            /\ UNCHANGED <<usageToday, flags, history>>
       ELSE LET r == tickResult(Head(pendingTicks), TRUE)
            IN /\ timekeeper' = r.tk
               /\ usageToday' = r.usage
               /\ flags' = r.flags
               /\ history' = noteCounted(noteNudge(history, r.sent),
                                          Head(pendingTicks).now)
  /\ UNCHANGED <<suspended, lib, now, today, tabs, popupOpen, settings, globalService,
                 snoozeTimer>>

\* the same where the directives to the tab are left out of account
TickResume(idleState) == tickResume(idleState) /\ UNCHANGED dispatch

\* the same, for a user who is active and a tick whose call of
\* storage.updateUsageToday is rejected by chrome.storage
TickResumeWriteFails ==
  /\ pendingTicks # <<>>
  /\ saveDue(timekeeper, Head(pendingTicks))
  /\ pendingTicks' = Tail(pendingTicks)
  /\ LET r == tickResult(Head(pendingTicks), FALSE)
     IN /\ timekeeper' = r.tk
        /\ usageToday' = r.usage
        /\ flags' = r.flags
        /\ history' = [noteCounted(noteNudge(history, r.sent),
                                   Head(pendingTicks).now)
                         EXCEPT !.writeFailed = TRUE]
  /\ UNCHANGED <<dispatch, suspended, lib, now, today, tabs, popupOpen, settings, globalService,
                 snoozeTimer>>

-----------------------------------------------------------------------------
(* Commands *)

\* the flags a granted snooze writes, with locked left as it was
snoozeFlagsKeepingLock(fl) ==
  [fl EXCEPT !.snoozed = TRUE, !.snoozeUsedToday = TRUE, !.nudged = FALSE,
             !.frozenTimeUsed = Undefined]

\* the flags a granted snooze writes (updateFlags in handleSnoozeRequest)
snoozeFlags(fl) ==
  [fl EXCEPT !.snoozed = TRUE, !.snoozeUsedToday = TRUE, !.locked = FALSE,
             !.nudged = FALSE, !.frozenTimeUsed = Undefined]

\* the flags the setTimeout callback of handleSnoozeRequest writes
cooldownLockFlags(fl, cooldownMs) ==
  [fl EXCEPT !.snoozed = FALSE, !.locked = TRUE, !.nudged = FALSE,
             !.frozenTimeUsed = cooldownMs]

\* what handleSnoozeRequest answers in the current state
snoozeResult ==
  IF globalService.snoozeInProgress
    THEN [success |-> FALSE, error |-> "Snooze in progress"]
  ELSE IF now - globalService.lastSnoozeRequest < 2000
    THEN [success |-> FALSE,
          error |-> "Please wait before requesting snooze again"]
  ELSE IF ~settings.allowSnooze
    THEN [success |-> FALSE, error |-> "Snooze not allowed"]
  ELSE IF flags.snoozed \/ flags.snoozeUsedToday
    THEN [success |-> FALSE, error |-> "Snooze already used today"]
  ELSE [success |-> TRUE, error |-> "none"]

\* TwitterTimeLimitService.handleSnoozeRequest (SNOOZE_REQUEST)
snoozeRequest ==
  LET cooldownMs == settings.cooldownMin * 60 * 1000
      busy == [globalService EXCEPT !.snoozeInProgress = TRUE]
      asked == [busy EXCEPT !.lastSnoozeRequest = now]
  IN
  /\ mayCommand
  /\ history' = noteCommand(IF snoozeResult.success
                              THEN noteSnooze(noteUsageReset(history))
                              ELSE history)
  /\ IF snoozeResult.error = "Snooze in progress"
       THEN UNCHANGED <<globalService, usageToday, flags, timekeeper,
                        snoozeTimer>>
     ELSE IF snoozeResult.error = "Please wait before requesting snooze again"
       THEN /\ globalService' = busy
            /\ UNCHANGED <<usageToday, flags, timekeeper, snoozeTimer>>
     ELSE IF ~snoozeResult.success
       THEN /\ globalService' = asked
            /\ UNCHANGED <<usageToday, flags, timekeeper, snoozeTimer>>
     ELSE /\ globalService' = asked
          /\ usageToday' = [millisActive |-> 0, dateKey |-> today]
          /\ timekeeper' = [stop(timekeeper) EXCEPT
                              !.currentUsageMs = 0, !.isInitialized = TRUE,
                              !.isPaused = FALSE, !.isLocked = FALSE,
                              !.lastTickTime = now, !.lastUsageSave = 0]
          /\ flags' = snoozeFlags(flags)
          /\ snoozeTimer' = [pending |-> TRUE, due |-> now + cooldownMs,
                             cooldownMs |-> cooldownMs]
  /\ UNCHANGED <<suspended, lib, now, today, tabs, popupOpen, settings, pendingTicks>>

\* the same where the directives to the tab are left out of account
SnoozeRequest == snoozeRequest /\ UNCHANGED dispatch

\* the setTimeout callback of handleSnoozeRequest
snoozeTimerFire ==
  /\ snoozeTimer.pending
  /\ now >= snoozeTimer.due
  /\ flags' = cooldownLockFlags(flags, snoozeTimer.cooldownMs)
  /\ timekeeper' = stop([timekeeper EXCEPT !.isLocked = TRUE])
  /\ usageToday' = stopFlush(timekeeper, usageToday)
  /\ globalService' = [globalService EXCEPT !.snoozeInProgress = FALSE]
  /\ snoozeTimer' = NoTimer
  /\ UNCHANGED <<suspended, lib, now, today, tabs, popupOpen, settings, pendingTicks, history>>

\* the same where the directives to the tab are left out of account
SnoozeTimerFire == snoozeTimerFire /\ UNCHANGED dispatch

\* TwitterTimeLimitService.clearLockedState: the flags and the clock after it
clearLockedState(fl, tk) ==
  IF fl.locked
    THEN [flags |-> [fl EXCEPT !.locked = FALSE, !.frozenTimeUsed = Undefined],
          tk |-> [tk EXCEPT !.isLocked = FALSE]]
    ELSE [flags |-> fl, tk |-> tk]

\* CLEAR_LOCK
ClearLock ==
  /\ mayCommand
  /\ flags.locked
  /\ flags' = clearLockedState(flags, timekeeper).flags
  /\ timekeeper' = clearLockedState(flags, timekeeper).tk
  /\ history' = noteCommand(history)
  /\ UNCHANGED <<dispatch, suspended, lib, now, today, tabs, popupOpen, settings, usageToday,
                 globalService, pendingTicks, snoozeTimer>>

\* RulesEngine.validatePasscode of the service worker
validatePasscode(se, inputPasscode) ==
  IF se.passcodeHash = Null THEN FALSE ELSE se.passcodeHash = inputPasscode

\* SET_PASSCODE: rules.setPasscode -> storage.updateSettings; the limit is
\* unchanged, so handleSettingsChange does nothing
SetPasscode(passcode) ==
  /\ mayCommand
  /\ settings' = Merge(settings, [passcodeHash |-> passcode])
  /\ history' = noteCommand(history)
  /\ UNCHANGED <<dispatch, suspended, lib, now, today, tabs, popupOpen, usageToday, flags, timekeeper,
                 globalService, pendingTicks, snoozeTimer>>

\* handleBypassRequest calling the method this.clearLockedState
handleBypassRequestCallingMethod(fl, tk, isValid) ==
  clearLockedState(fl, tk)

\* TwitterTimeLimitService.handleBypassRequest: the flags and the clock after
\* it.  An invalid passcode raises a notification and the handler goes on;
\* its next statement calls the undeclared name clearLockedState (not
\* this.clearLockedState), which throws a ReferenceError for every passcode.
\* handleMessage catches it and answers { error }.
handleBypassRequest(fl, tk, isValid) ==
  [flags |-> fl, tk |-> tk]

\* BYPASS_REQUEST
BypassRequest(passcode) ==
  LET isValid == validatePasscode(settings, passcode)
      r == handleBypassRequest(flags, timekeeper, isValid)
  IN
  /\ mayCommand
  /\ flags' = r.flags
  /\ timekeeper' = r.tk
  /\ history' = noteCommand([history EXCEPT
                    !.bypass = IF isValid THEN "valid" ELSE "invalid"])
  /\ UNCHANGED <<dispatch, suspended, lib, now, today, tabs, popupOpen, settings, usageToday,
                 globalService, pendingTicks, snoozeTimer>>

\* checkDailyReset resetting whenever usage is stored, whatever the date
checkDailyResetOnUsage ==
  usageToday.dateKey # today \/ usageToday.millisActive > 0

\* what StorageManager.checkDailyReset returns in the current state
checkDailyReset == usageToday.dateKey # today

\* the daily_reset alarm has fired today
noteAlarm(h) == [h EXCEPT !.alarmOn = today]

\* the daily_reset alarm: StorageManager.checkDailyReset
DailyResetAlarm ==
  /\ IF checkDailyReset
       THEN /\ usageToday' = [millisActive |-> 0, dateKey |-> today]
            /\ flags' = DEFAULT_FLAGS
            /\ history' = noteAlarm(noteSuperseded(noteUsageReset(history)))
       ELSE /\ UNCHANGED <<usageToday, flags>>
            /\ history' = noteAlarm(history)
  /\ UNCHANGED <<dispatch, suspended, lib, now, today, tabs, popupOpen, settings, timekeeper,
                 globalService, pendingTicks, snoozeTimer>>

\* TwitterTimeLimitService.togglePause (PAUSE_TOGGLE)
TogglePause ==
  LET sv == [globalService EXCEPT !.lastPauseToggle = now]
      newPausedState == ~flags.pausedToday
      toggled == [flags EXCEPT !.pausedToday = newPausedState]
      tk0 == [timekeeper EXCEPT !.isPaused = newPausedState]
  IN
  /\ mayCommand
  /\ history' = noteCommand(IF now - globalService.lastPauseToggle >= 1000
                                 /\ newPausedState
                              THEN noteSuperseded(history) ELSE history)
  /\ IF now - globalService.lastPauseToggle < 1000
       THEN UNCHANGED <<globalService, flags, timekeeper, usageToday>>
     ELSE IF newPausedState
       THEN /\ flags' = IF toggled.snoozed
                          THEN [toggled EXCEPT !.snoozed = FALSE,
                                               !.locked = FALSE,
                                               !.pausedToday = TRUE]
                          ELSE toggled
            /\ timekeeper' = stop(tk0)
            /\ usageToday' = stopFlush(tk0, usageToday)
            /\ globalService' = sv
       ELSE LET resumed == [sv EXCEPT !.suppressStopUntil = now + 1200]
                tk1 == IF popupOpen /\ hasActiveXTabAnywhere
                         THEN setActive(IF ~tk0.tickInterval
                                          THEN start(tk0, usageToday, toggled)
                                          ELSE tk0, TRUE)
                         ELSE tk0
                tk2 == IF resumed.isTracking
                         THEN setActive(IF ~tk1.tickInterval
                                          THEN start(tk1, usageToday, toggled)
                                          ELSE tk1, TRUE)
                         ELSE tk1
            IN /\ flags' = toggled
               /\ timekeeper' = tk2
               /\ globalService' = resumed
               /\ UNCHANGED usageToday
  /\ UNCHANGED <<dispatch, suspended, lib, now, today, tabs, popupOpen, settings, pendingTicks,
                 snoozeTimer>>

\* manualReset merging its flags into the stored ones, as updateFlags would
manualResetFlagsMerged ==
  [flags EXCEPT !.nudged = FALSE, !.locked = FALSE, !.pausedToday = FALSE,
                !.frozenTimeUsed = Undefined]

\* the flags record manualReset stores: snoozeUsedToday is not among its keys
manualResetFlags ==
  [nudged |-> FALSE, locked |-> FALSE, pausedToday |-> FALSE,
   snoozed |-> FALSE, snoozeUsedToday |-> FALSE, frozenTimeUsed |-> Undefined]

\* manualReset passes its rate limit
resetAccepted ==
  ~(globalService.lastResetRequestAt # 0
      /\ now - globalService.lastResetRequestAt < 1500)

\* TwitterTimeLimitService.manualReset (MANUAL_RESET)
ManualReset ==
  LET tk0 == [stop(timekeeper) EXCEPT
                !.currentUsageMs = 0, !.isInitialized = TRUE,
                !.isLocked = FALSE, !.isPaused = FALSE, !.lastTickTime = Null]
      us0 == [millisActive |-> 0, dateKey |-> today]
      fl0 == manualResetFlags
      sv0 == [globalService EXCEPT !.lastResetRequestAt = now,
                                   !.suppressStopUntil = now + 1500]
      r == updateTrackingImmediate(tk0, us0, sv0, settings, fl0, popupOpen)
  IN
  /\ mayCommand
  /\ resetAccepted
  /\ timekeeper' = r.tk
  /\ usageToday' = r.usage
  /\ flags' = fl0
  /\ globalService' = r.svc
  /\ history' = noteCommand(noteSuperseded(noteUsageReset(history)))
  /\ UNCHANGED <<dispatch, suspended, lib, now, today, tabs, popupOpen, settings, pendingTicks,
                 snoozeTimer>>

\* the settings objects of UPDATE_SETTINGS messages: the form of the options
\* page (getFormData), and the toggle of the popup
FormData ==
  {[dailyLimitMin |-> l, cooldownMin |-> c, allowSnooze |-> a] :
     l \in Limits, c \in Cooldowns, a \in BOOLEAN}
Toggles == {[enabled |-> b] : b \in BOOLEAN}

\* handleMessage UPDATE_SETTINGS
updateSettings(p, resetUsage) ==
  LET limitChanged == "dailyLimitMin" \in DOMAIN p
                        /\ settings.dailyLimitMin # p.dailyLimitMin
      newLimitMs == p.dailyLimitMin * 60 * 1000
      shouldLockImmediately ==
        limitChanged /\ timekeeper.currentUsageMs >= newLimitMs - tickBuffer
      cooldownChanged == "cooldownMin" \in DOMAIN p
                           /\ settings.cooldownMin # p.cooldownMin
      \* the immediate lock: in memory, and stop()
      tk1 == IF shouldLockImmediately
               THEN stop([timekeeper EXCEPT !.isLocked = TRUE])
               ELSE timekeeper
      us1 == IF shouldLockImmediately
               THEN stopFlush(timekeeper, usageToday)
               ELSE usageToday
      \* the changed delay time: the counter restarts at 0
      tk2 == IF cooldownChanged
               THEN [tk1 EXCEPT !.currentUsageMs = 0, !.isInitialized = TRUE,
                                !.isPaused = FALSE,
                                !.isLocked = IF shouldLockImmediately
                                               THEN FALSE ELSE @]
               ELSE tk1
      tk3 == IF resetUsage THEN [tk2 EXCEPT !.isLocked = FALSE] ELSE tk2
      \* storageUpdates
      newFlags ==
        IF resetUsage
          THEN [flags EXCEPT !.nudged = FALSE, !.locked = FALSE,
                             !.snoozed = FALSE, !.frozenTimeUsed = Undefined]
        ELSE IF shouldLockImmediately /\ ~cooldownChanged
          THEN [flags EXCEPT !.locked = TRUE, !.frozenTimeUsed = newLimitMs]
        ELSE flags
      newUsage ==
        IF cooldownChanged \/ resetUsage
          THEN [millisActive |-> 0, dateKey |-> today]
          ELSE us1
  IN
  /\ mayCommand
  /\ now - globalService.lastSettingsUpdate >= 1000
  /\ globalService' = [globalService EXCEPT !.lastSettingsUpdate = now]
  /\ settings' = Merge(settings, p)
  /\ usageToday' = newUsage
  /\ flags' = newFlags
  /\ timekeeper' = tk3
  /\ history' = noteCommand(IF cooldownChanged \/ resetUsage
                              THEN noteUsageReset(history) ELSE history)
  /\ UNCHANGED <<suspended, lib, now, today, tabs, popupOpen, pendingTicks, snoozeTimer>>

\* the same where the directives to the tab are left out of account
UpdateSettings(p, resetUsage) ==
  updateSettings(p, resetUsage) /\ UNCHANGED dispatch

\* handleMessage UPDATE_SETTINGS less than 1 s after the one before it: the
\* command is answered and nothing else is done
UpdateSettingsDebounced(p) ==
  /\ mayCommand
  /\ now - globalService.lastSettingsUpdate < 1000
  /\ history' = noteCommand(history)
  /\ UNCHANGED <<dispatch, suspended, lib, now, today, tabs, popupOpen,
                 settings, usageToday, flags, timekeeper, globalService,
                 pendingTicks, snoozeTimer>>

\* the response of UPDATE_SETTINGS when storage accepts its write
updateSettingsResponse ==
  [success |-> TRUE,
   debounced |-> now - globalService.lastSettingsUpdate < 1000]

\* message.settings of an UPDATE_SETTINGS command as any sender may build
\* it: the numbers of the options page's form, within and outside the
\* ranges that validateFormData names
WireLimits == {0, 1, 1441}
WireCooldowns == {0, 1, 61}
WireResetHours == {4, 24}
WireFormData ==
  {[dailyLimitMin |-> l, cooldownMin |-> c, resetHourLocal |-> h] :
     l \in WireLimits, c \in WireCooldowns, h \in WireResetHours}

\* OptionsPage.validateFormData
validateFormData(data) ==
  /\ ~(data.dailyLimitMin = 0 \/ data.dailyLimitMin < 1
         \/ data.dailyLimitMin > 1440)
  /\ ~(data.cooldownMin = 0 \/ data.cooldownMin < 1 \/ data.cooldownMin > 60)

\* OptionsPage.shouldResetUsage, the page showing the stored settings
shouldResetUsage(newFormData) ==
  \/ settings.dailyLimitMin # newFormData.dailyLimitMin
  \/ settings.cooldownMin # newFormData.cooldownMin

\* OptionsPage.saveSettings: the form is sent if it is valid
SaveSettings(formData) ==
  /\ validateFormData(formData)
  /\ UpdateSettings(formData, shouldResetUsage(formData))

-----------------------------------------------------------------------------
(* Handlers that interleave: updateTrackingImmediate reads wasTracking,    *)
(* the settings and the flags, and is then suspended at chrome.tabs.query  *)
(* and chrome.windows.getLastFocused; other handlers run before it resumes.*)

\* updateTrackingImmediate up to its await of chrome.tabs.query
UpdateTrackingBegin ==
  /\ suspended.tracking = <<>>
  /\ suspended' =
       [suspended EXCEPT
          !.tracking = <<[wasTracking |-> globalService.isTracking,
                          settings |-> settings, flags |-> flags]>>]
  /\ UNCHANGED <<dispatch, lib, now, today, tabs, popupOpen, settings,
                 usageToday,
                 flags, timekeeper, globalService, pendingTicks, snoozeTimer,
                 history>>

\* updateTrackingImmediate from the assignment of isTracking to its end:
\* the branch it takes with the flags it read and the decision track
trackingBranch(snap, track) ==
  LET sv1 == [globalService EXCEPT !.isTracking = track]
      stopped == [tk |-> stop(timekeeper),
                  usage |-> stopFlush(timekeeper, usageToday), svc |-> sv1]
  IN IF snap.flags.pausedToday
       THEN [tk |-> timekeeper, usage |-> usageToday, svc |-> sv1]
     ELSE IF snap.flags.locked THEN stopped
     ELSE IF track
       THEN LET tk1 == IF ~timekeeper.tickInterval /\ ~timekeeper.isLocked
                         THEN start(timekeeper, usageToday, flags)
                         ELSE timekeeper
                tk2 == IF ~tk1.isPaused /\ ~tk1.isLocked
                         THEN setActive(tk1, TRUE) ELSE tk1
            IN [tk |-> tk2, usage |-> usageToday, svc |-> sv1]
     ELSE IF snap.wasTracking /\ ~suppressStops(globalService) THEN stopped
     ELSE [tk |-> timekeeper, usage |-> usageToday, svc |-> sv1]

\* updateTrackingImmediate from the answers of chrome.tabs.query and
\* chrome.windows.getLastFocused to its end, with what it read before
updateTrackingResumed(snap) ==
  LET sv == [globalService EXCEPT !.isTracking = snap.wasTracking]
  IN trackingBranch(snap, shouldTrack(timekeeper, sv, snap.settings,
                                      snap.flags, popupOpen))

\* the suspended updateTrackingImmediate resumes
UpdateTrackingResume ==
  /\ suspended.tracking # <<>>
  /\ LET r == updateTrackingResumed(Head(suspended.tracking))
     IN /\ timekeeper' = r.tk
        /\ usageToday' = r.usage
        /\ globalService' = r.svc
  /\ suspended' = [suspended EXCEPT !.tracking = <<>>]
  /\ UNCHANGED <<dispatch, lib, now, today, tabs, popupOpen, settings, flags,
                 pendingTicks, snoozeTimer, history>>

\* The same recompute in three steps.  Its queries are answered and it
\* assigns isTracking (the code between the awaits runs at once); where its
\* branch awaits stop() or start(), the guard updateTrackingInProgress is
\* released only after that, and otherwise in the same step.
awaitsAfterDecision(snap, track) ==
  /\ ~snap.flags.pausedToday
  /\ \/ snap.flags.locked
     \/ track /\ ~timekeeper.tickInterval /\ ~timekeeper.isLocked
     \/ ~track /\ snap.wasTracking /\ ~suppressStops(globalService)

\* the end of the tracking branch of updateTrackingImmediate:
\* startPopupUpdates() if the popup was open when the call looked
startsPopupUpdates(snap, track, tk, open) ==
  /\ ~snap.flags.pausedToday /\ ~snap.flags.locked
  /\ track
  /\ ~tk.isPaused /\ ~tk.isLocked
  /\ open

UpdateTrackingDecide ==
  /\ suspended.tracking # <<>>
  /\ "track" \notin DOMAIN Head(suspended.tracking)
  /\ LET snap == Head(suspended.tracking)
         r == updateTrackingResumed(snap)
         track == r.svc.isTracking
     IN /\ globalService' = [globalService EXCEPT !.isTracking = track]
        /\ IF awaitsAfterDecision(snap, track)
             THEN /\ suspended' =
                       [suspended EXCEPT
                          !.tracking = <<[wasTracking |-> snap.wasTracking,
                                          settings |-> snap.settings,
                                          flags |-> snap.flags,
                                          track |-> track,
                                          popupOpen |-> popupOpen]>>]
                  /\ UNCHANGED <<timekeeper, usageToday>>
             ELSE /\ suspended' =
                       [suspended EXCEPT
                          !.tracking = <<>>,
                          !.popupUpdateInterval =
                             @ \/ startsPopupUpdates(snap, track, r.tk,
                                                     popupOpen)]
                  /\ timekeeper' = r.tk
                  /\ usageToday' = r.usage
  /\ UNCHANGED <<dispatch, lib, now, today, tabs, popupOpen, settings, flags,
                 pendingTicks, snoozeTimer, history>>

UpdateTrackingFinish ==
  /\ suspended.tracking # <<>>
  /\ "track" \in DOMAIN Head(suspended.tracking)
  /\ LET snap == Head(suspended.tracking)
         r == trackingBranch(snap, snap.track)
     IN /\ timekeeper' = r.tk
        /\ usageToday' = r.usage
        /\ suspended' =
             [suspended EXCEPT
                !.tracking = <<>>,
                !.popupUpdateInterval =
                   @ \/ startsPopupUpdates(snap, snap.track, r.tk,
                                           snap.popupOpen)]
  /\ UNCHANGED <<dispatch, lib, now, today, tabs, popupOpen, settings, flags,
                 globalService, pendingTicks, snoozeTimer, history>>

\* updateTrackingImmediate is called: it returns at once while an earlier
\* call holds the guard, and reads what it reads before its first await
\* otherwise
trackingCalled ==
  IF suspended.tracking # <<>> THEN suspended
  ELSE [suspended EXCEPT
          !.tracking = <<[wasTracking |-> globalService.isTracking,
                          settings |-> settings, flags |-> flags]>>]

\* chrome.windows.onFocusChanged: the window of the in-scope tab gains or
\* loses the focus, and the listener calls updateTrackingImmediate
FocusSignal(t) ==
  /\ tabs \in {"background", "focused"}
  /\ t \in {"background", "focused"}
  /\ t # tabs
  /\ tabs' = t
  /\ suspended' = trackingCalled
  /\ UNCHANGED <<dispatch, lib, now, today, popupOpen, settings, usageToday,
                 flags, timekeeper, globalService, pendingTicks, snoozeTimer,
                 history>>

\* chrome.tabs.onActivated: another tab comes to the front, or the in-scope
\* tab does; the listeners call updateTrackingImmediate and
\* debouncedUpdateTracking
TabActivated(t) ==
  /\ t # tabs
  /\ tabs' = t
  /\ suspended' = [trackingCalled EXCEPT !.debounce = TRUE]
  /\ UNCHANGED <<dispatch, lib, now, today, popupOpen, settings, usageToday,
                 flags, timekeeper, globalService, pendingTicks, snoozeTimer,
                 history>>

\* the timer of debouncedUpdateTracking fires
DebounceFire ==
  /\ suspended.debounce
  /\ suspended' = [trackingCalled EXCEPT !.debounce = FALSE]
  /\ UNCHANGED <<dispatch, lib, now, today, tabs, popupOpen, settings,
                 usageToday, flags, timekeeper, globalService, pendingTicks,
                 snoozeTimer, history>>

\* chrome.runtime.onConnect for the port popup-realtime:
\* addPopupConnection sets the 100 ms timer of the first connection, and the
\* listener calls updateTrackingImmediate
PopupPortConnect ==
  /\ ~popupOpen
  /\ popupOpen' = TRUE
  /\ suspended' = [trackingCalled EXCEPT !.popupStartTimeout = TRUE]
  /\ UNCHANGED <<dispatch, lib, now, today, tabs, settings, usageToday, flags,
                 timekeeper, globalService, pendingTicks, snoozeTimer,
                 history>>

\* the timer of addPopupConnection fires: startPopupUpdates() if a port is
\* still connected
PopupStartTimeout ==
  /\ suspended.popupStartTimeout
  /\ suspended' = [suspended EXCEPT !.popupStartTimeout = FALSE,
                                    !.popupUpdateInterval = @ \/ popupOpen]
  /\ UNCHANGED <<dispatch, lib, now, today, tabs, popupOpen, settings,
                 usageToday, flags, timekeeper, globalService, pendingTicks,
                 snoozeTimer, history>>

\* port.onDisconnect of the last port: stopPopupUpdates()
PopupPortDisconnect ==
  /\ popupOpen
  /\ popupOpen' = FALSE
  /\ suspended' = [suspended EXCEPT !.popupUpdateInterval = FALSE]
  /\ UNCHANGED <<dispatch, lib, now, today, tabs, settings, usageToday, flags,
                 timekeeper, globalService, pendingTicks, snoozeTimer,
                 history>>

-----------------------------------------------------------------------------
(* Directives to the in-scope tab.  chrome.tabs.sendMessage is answered by *)
(* the content script of the tab or rejected by the host; a call of        *)
(* ensureContentScriptAndSendMessage is suspended at every await, so it is *)
(* a delivery that other handlers overtake: [kind, i, phase, notBefore]    *)
(* is the call for the directive kind in iteration i of its loop, either   *)
(* waiting for a timer that fires at notBefore or for the answer to the    *)
(* message it has sent.                                                    *)

maxRetries == 3
injectWait == 1000         \* the pause after the content script is injected
delays == <<0, 1000, 2000>>   \* delays[i + 1] here is delays[i] of the code

\* the state of every variable but the tab and the directives
clockVars == <<now, today, popupOpen, settings, usageToday, flags, timekeeper,
               globalService, pendingTicks, snoozeTimer, history, lib,
               suspended>>

\* the content script receives a directive: what the tab shows afterwards
shown(kind, screen) ==
  IF kind = "HIDE_OVERLAY" THEN "none"
  ELSE IF ~settings.enabled THEN screen
  ELSE IF kind = "SHOW_SOFT_LOCK" THEN "softlock"
  ELSE "countdown"

\* one call of chrome.tabs.sendMessage whose answer the caller does not
\* await (.catch): delivered says whether a content script received it
sendMessage(dp, kind, delivered) ==
  [dp EXCEPT !.sent = 1 - @,
             !.screen = IF delivered THEN shown(kind, @) ELSE @]

\* the tab is closed or leaves the scope: chrome.tabs.onRemoved
closed(dp) == [dp EXCEPT !.tabsWithOverlays = FALSE, !.screen = "none"]

\* ensureContentScriptAndSendMessage up to its first await: the duplicate
\* returns, any other call takes the key and sends the first message
ensureContentScriptAndSendMessage(dp, kind) ==
  IF kind \in dp.pendingMessages THEN dp
  ELSE [dp EXCEPT !.pendingMessages = @ \cup {kind},
                  !.deliveries = @ \cup {[kind |-> kind, i |-> 0,
                                          phase |-> "sent", notBefore |-> now]},
                  !.sent = 1 - @]

\* how chrome.tabs.sendMessage and the injection that follows can end
Outcomes == {"ok", "noReceiver", "noReceiverInjectFails", "error"}

\* the call leaves its try block: finally
finished(dp, d) ==
  [dp EXCEPT !.deliveries = @ \ {d}, !.pendingMessages = @ \ {d.kind}]

\* deliveryAnswer without the finally block when the last attempt fails
deliveryAnswerKeepingKey(dp, d, outcome) ==
  IF outcome = "ok"
    THEN [finished(dp, d) EXCEPT !.screen = shown(d.kind, @)]
  ELSE IF d.i + 1 >= maxRetries
    THEN [dp EXCEPT !.deliveries = @ \ {d}]
  ELSE LET injected == outcome = "noReceiver" /\ d.i = 0
           next == [kind |-> d.kind, i |-> d.i + 1, phase |-> "waiting",
                    notBefore |-> now + (IF injected THEN injectWait ELSE 0)
                                      + delays[d.i + 2]]
       IN [dp EXCEPT !.deliveries = (@ \ {d}) \cup {next}]

\* the answer to the message of delivery d arrives
deliveryAnswer(dp, d, outcome) ==
  IF outcome = "ok"
    THEN [finished(dp, d) EXCEPT !.screen = shown(d.kind, @)]
  ELSE IF d.i + 1 >= maxRetries
    THEN finished(dp, d)
  ELSE LET injected == outcome = "noReceiver" /\ d.i = 0
           next == [kind |-> d.kind, i |-> d.i + 1, phase |-> "waiting",
                    notBefore |-> now + (IF injected THEN injectWait ELSE 0)
                                      + delays[d.i + 2]]
       IN [dp EXCEPT !.deliveries = (@ \ {d}) \cup {next}]

\* the timer of delivery d has fired: the next message is sent
deliverySend(dp, d) ==
  [dp EXCEPT !.deliveries = (@ \ {d}) \cup {[d EXCEPT !.phase = "sent"]},
             !.sent = 1 - @]

DeliveryAnswer(kind, outcome) ==
  \E d \in dispatch.deliveries :
    /\ d.kind = kind
    /\ d.phase = "sent"
    /\ outcome = "ok" => tabs # "none"
    /\ dispatch' = deliveryAnswer(dispatch, d, outcome)
    /\ UNCHANGED tabs
    /\ UNCHANGED clockVars

DeliverySend(kind) ==
  \E d \in dispatch.deliveries :
    /\ d.kind = kind
    /\ d.phase = "waiting"
    /\ now >= d.notBefore
    /\ dispatch' = deliverySend(dispatch, d)
    /\ UNCHANGED tabs
    /\ UNCHANGED clockVars

\* a lock whose directives are still to be sent: the handler has written
\* the flags and stopped the clock and is suspended at chrome.tabs.query
lockPath(path) == [path |-> path, mode |-> settings'.mode]
locking(dp, path, locks) ==
  IF locks THEN [dp EXCEPT !.lockPaths = @ \cup {lockPath(path)}] ELSE dp

\* tick of a user who is active; triggerLimit goes on to its dispatch when
\* it has set the lock
TickLock ==
  /\ tickResume("active")
  /\ dispatch' = locking(dispatch, "triggerLimit",
                         ~flags.locked /\ flags'.locked)

\* the setTimeout callback of handleSnoozeRequest, and its dispatch
SnoozeTimerLock ==
  /\ snoozeTimerFire
  /\ dispatch' = locking(dispatch, "postSnooze", TRUE)

\* handleSnoozeRequest, which sends HIDE_OVERLAY to the tab when the snooze
\* is granted
SnoozeRequestHide(delivered) ==
  /\ snoozeRequest
  /\ dispatch' = IF snoozeResult.success /\ tabs # "none"
                   THEN sendMessage(dispatch, "HIDE_OVERLAY", delivered)
                   ELSE dispatch

\* the settings objects that carry the lock mode
ModeForms ==
  {[dailyLimitMin |-> l, mode |-> m] : l \in Limits, m \in {"softlock", "close"}}

\* UPDATE_SETTINGS; the immediate lock (storageUpdates carries locked)
\* schedules its dispatch with setTimeout
UpdateSettingsLock(p, resetUsage) ==
  LET limitChanged == "dailyLimitMin" \in DOMAIN p
                        /\ settings.dailyLimitMin # p.dailyLimitMin
      shouldLockImmediately ==
        limitChanged /\ timekeeper.currentUsageMs
                          >= p.dailyLimitMin * 60 * 1000 - tickBuffer
      cooldownChanged == "cooldownMin" \in DOMAIN p
                           /\ settings.cooldownMin # p.cooldownMin
  IN
  /\ updateSettings(p, resetUsage)
  /\ dispatch' = locking(dispatch, "settings",
                         /\ ~resetUsage
                         /\ shouldLockImmediately
                         /\ ~cooldownChanged)

\* the dispatch of a lock: triggerLimit after chrome.tabs.query, the
\* callback of handleSnoozeRequest after its query, the setTimeout of
\* UPDATE_SETTINGS
LockDispatch(l, delivered) ==
  LET taken == [dispatch EXCEPT !.lockPaths = @ \ {l}]
  IN
  /\ l \in dispatch.lockPaths
  /\ IF tabs = "none"
       THEN dispatch' = taken /\ tabs' = tabs
     ELSE IF l.path = "triggerLimit" /\ l.mode = "close"
       THEN IF delivered
              THEN /\ dispatch' = sendMessage(taken, "SHOW_CLOSE_COUNTDOWN",
                                               TRUE)
                   /\ tabs' = tabs
              ELSE /\ dispatch' = closed(sendMessage(taken,
                                                     "SHOW_CLOSE_COUNTDOWN",
                                                     FALSE))
                   /\ tabs' = "none"
     ELSE IF l.path = "triggerLimit"
       THEN /\ dispatch' = ensureContentScriptAndSendMessage(
                             [taken EXCEPT !.tabsWithOverlays = TRUE],
                             "SHOW_SOFT_LOCK")
            /\ tabs' = tabs
     ELSE /\ dispatch' = sendMessage(taken, "SHOW_SOFT_LOCK", delivered)
          /\ tabs' = tabs
  /\ UNCHANGED clockVars

\* RulesEngine.shouldBlockTab, for the in-scope tab
shouldBlockTab == settings.enabled /\ flags.locked

\* the tab has finished loading (chrome.tabs.onUpdated, status complete):
\* the refreshed tab has no overlay, and RulesEngine.handleTabUpdated
\* blocks it
TabUpdated(delivered) ==
  LET fresh == [dispatch EXCEPT !.tabsWithOverlays = FALSE, !.screen = "none"]
  IN
  /\ tabs # "none"
  /\ IF ~shouldBlockTab
       THEN dispatch' = fresh /\ tabs' = tabs
     ELSE IF settings.mode = "close"
       THEN dispatch' = closed(fresh) /\ tabs' = "none"
     ELSE dispatch' = sendMessage(fresh, "SHOW_SOFT_LOCK", delivered)
          /\ tabs' = tabs
  /\ UNCHANGED clockVars

\* an in-scope tab is opened and focused; the model follows one tab at a
\* time: no call for the tab before it is still suspended
TabOpen ==
  /\ tabs = "none"
  /\ dispatch.deliveries = {}
  /\ tabs' = "focused"
  /\ UNCHANGED dispatch
  /\ UNCHANGED clockVars

\* the user closes the tab
TabClose ==
  /\ tabs # "none"
  /\ tabs' = "none"
  /\ dispatch' = closed(dispatch)
  /\ UNCHANGED clockVars

\* updateTrackingImmediate with its branch for the locked state, which sends
\* the overlay to a tab that has none
UpdateTrackingLocked ==
  /\ updateTracking
  /\ dispatch' =
       IF /\ ~flags.pausedToday
          /\ flags.locked
          /\ tabs # "none"
          /\ ~dispatch.tabsWithOverlays
         THEN ensureContentScriptAndSendMessage(
                [dispatch EXCEPT !.tabsWithOverlays = TRUE], "SHOW_SOFT_LOCK")
         ELSE dispatch

-----------------------------------------------------------------------------
(* The StorageManager of src/lib/storage.js, for one key whose record has  *)
(* the fields a and b.  A value is a version number: every call of set and *)
(* update writes a number larger than all before it.  The empty record     *)
(* <<>> stands for a key that is absent from a Map.                        *)

Fields == {"a", "b"}

backoffMs == 5000          \* the back-off after a rejected write
flushSlack == 50           \* added to the rest of the back-off by scheduleFlush

\* { ...old, ...upd } for records with any fields
Spread(old, upd) ==
  [k \in (DOMAIN old) \cup (DOMAIN upd) |->
     IF k \in DOMAIN upd THEN upd[k] ELSE old[k]]

\* StorageManager.scheduleFlush: the timer is set unless one is pending
scheduleFlush(l, delayMs) ==
  IF l.flushTimer # Null THEN l ELSE [l EXCEPT !.flushTimer = now + delayMs]

\* StorageManager.get: the value it returns
get(l) == IF l.cache # <<>> THEN l.cache ELSE l.stored

\* StorageManager.set; writeOk tells whether chrome.storage.local.set succeeds
set(l, value, writeOk) ==
  IF now < l.backoffUntil
    THEN scheduleFlush([l EXCEPT !.pending = Spread(@, value),
                                 !.cache = Spread(@, value)],
                       l.backoffUntil - now + flushSlack)
  ELSE IF writeOk
    THEN [l EXCEPT !.stored = value, !.cache = value]
  ELSE scheduleFlush([l EXCEPT !.backoffUntil = now + backoffMs,
                               !.pending = Spread(@, value),
                               !.cache = Spread(@, value)],
                     backoffMs)

\* StorageManager.update
update(l, updates, writeOk) ==
  LET current == get(l)
      updated == Spread(current, updates)
  IN IF now < l.backoffUntil
       THEN scheduleFlush([l EXCEPT !.pending = Spread(@, updated),
                                    !.cache = updated],
                          l.backoffUntil - now + flushSlack)
     ELSE IF writeOk
       THEN [l EXCEPT !.stored = updated, !.cache = updated]
     ELSE scheduleFlush([l EXCEPT !.backoffUntil = now + backoffMs,
                                  !.pending = Spread(@, updated),
                                  !.cache = updated],
                        backoffMs)

\* the callback of the timer of scheduleFlush
flush(l, writeOk) ==
  LET fired == [l EXCEPT !.flushTimer = Null]
  IN IF now < l.backoffUntil
       THEN scheduleFlush(fired, l.backoffUntil - now + flushSlack)
     ELSE IF l.pending = <<>> THEN fired
     ELSE IF writeOk
       THEN [fired EXCEPT !.pending = <<>>, !.stored = l.pending,
                          !.cache = l.pending]
     ELSE scheduleFlush([fired EXCEPT !.backoffUntil = now + backoffMs],
                        backoffMs)

\* a call of set or update is made, with the next version number
mayWrite == history.libWrites < MaxWrites
nextVersion == history.libWrites + 1

\* chrome.storage may reject the write of this step
mayFail(writeOk) ==
  writeOk \/ (now >= lib.backoffUntil /\ history.libFailures < MaxFailures)

noteWrite(h, accepted, writeOk) ==
  [h EXCEPT !.libWrites = @ + 1,
            !.libAccepted = Spread(@, accepted),
            !.libFailures = IF writeOk THEN @ ELSE @ + 1]

appVars == <<dispatch, today, tabs, popupOpen, settings, usageToday, flags, timekeeper,
             globalService, pendingTicks, snoozeTimer>>

\* time passes, up to the horizon of the StorageManager's runs
StoreAdvance(d) ==
  /\ now + d <= MaxStoreTime
  /\ Advance(d)

\* get(key)
LibGet ==
  /\ lib' = [lib EXCEPT !.cache = get(lib)]
  /\ UNCHANGED <<now, appVars, history, suspended>>

\* set(key, value) with a whole record
LibSet(writeOk) ==
  LET value == [a |-> nextVersion, b |-> nextVersion]
  IN /\ mayWrite
     /\ mayFail(writeOk)
     /\ lib' = set(lib, value, writeOk)
     /\ history' = noteWrite(history, value, writeOk)
     /\ UNCHANGED <<now, appVars, suspended>>

\* update(key, updates) with one field
LibUpdate(f, writeOk) ==
  LET updates == [k \in {f} |-> nextVersion]
  IN /\ mayWrite
     /\ mayFail(writeOk)
     /\ lib' = update(lib, updates, writeOk)
     /\ history' = noteWrite(history, updates, writeOk)
     /\ UNCHANGED <<now, appVars, suspended>>

\* the timer of scheduleFlush fires, at its due time or later
LibFlush(writeOk) ==
  /\ lib.flushTimer # Null
  /\ now >= lib.flushTimer
  /\ mayFail(writeOk)
  /\ lib' = flush(lib, writeOk)
  /\ history' = [history EXCEPT
                   !.libFailures =
                      IF now >= lib.backoffUntil /\ lib.pending # <<>>
                           /\ ~writeOk
                        THEN @ + 1 ELSE @]
  /\ UNCHANGED <<now, appVars, suspended>>

(* update(key, updates) as the calls that interleave: the call runs up to  *)
(* its await of chrome.storage.local.set, and resumes when the write has   *)
(* been answered.  chrome.storage answers writes in the order of the calls.*)

\* StorageManager.update after the await, with the record made before it
updateResume(l, updated, writeOk) ==
  IF writeOk
    THEN [l EXCEPT !.stored = updated, !.cache = updated]
  ELSE scheduleFlush([l EXCEPT !.backoffUntil = now + backoffMs,
                               !.pending = Spread(@, updated),
                               !.cache = updated],
                     backoffMs)

\* update(key, updates) with one field, up to the await
LibUpdateBegin(f) ==
  LET updates == [k \in {f} |-> nextVersion]
      current == get(lib)
  IN /\ mayWrite
     /\ IF now < lib.backoffUntil
          THEN /\ lib' = update(lib, updates, TRUE)
               /\ UNCHANGED suspended
          ELSE /\ lib' = [lib EXCEPT !.cache = current]
               /\ suspended' =
                    [suspended EXCEPT
                       !.updates = Append(@, Spread(current, updates))]
     /\ history' = noteWrite(history, updates, TRUE)
     /\ UNCHANGED <<now, appVars>>

\* the oldest suspended update(key, updates) resumes
LibUpdateResume(writeOk) ==
  /\ suspended.updates # <<>>
  /\ writeOk \/ history.libFailures < MaxFailures
  /\ lib' = updateResume(lib, Head(suspended.updates), writeOk)
  /\ suspended' = [suspended EXCEPT !.updates = Tail(@)]
  /\ history' = [history EXCEPT
                   !.libFailures = IF writeOk THEN @ ELSE @ + 1]
  /\ UNCHANGED <<now, appVars>>

-----------------------------------------------------------------------------

(* The clock and its commands: one in-scope tab that gains and loses focus, *)
(* ticks that do not overlap, and the commands of the popup, the overlay   *)
(* and the options page.                                                   *)

Next ==
  \/ \E d \in Deltas : Advance(d)
  \/ DayChange
  \/ \E t \in {"none", "focused"} : TabSignal(t)
  \/ UpdateTracking
  \/ TickBegin
  \/ \E idleState \in {"active", "idle"} : TickResume(idleState)
  \/ SnoozeRequest
  \/ SnoozeTimerFire
  \/ ClearLock
  \/ DailyResetAlarm
  \/ TogglePause
  \/ ManualReset
  \/ \E p \in FormData, resetUsage \in BOOLEAN : UpdateSettings(p, resetUsage)
  \/ \E p \in Toggles : UpdateSettings(p, FALSE)

Spec == Init /\ [][Next]_vars

(* The clock under overlapping tick() invocations and activity signals;    *)
(* the only command is a change of the settings.                           *)

NextOverlap ==
  \/ \E d \in Deltas : Advance(d)
  \/ \E t \in {"none", "focused"} : TabSignal(t)
  \/ UpdateTracking
  \/ UserActivity
  \/ TickBegin
  \/ TickOverlap
  \/ \E idleState \in {"active", "idle"} : TickResume(idleState)
  \/ \E p \in FormData, resetUsage \in BOOLEAN : UpdateSettings(p, resetUsage)

SpecOverlap == Init /\ [][NextOverlap]_vars

(* Tracking: tabs in the foreground and in the background, the popup's     *)
(* port, activity signals, pause and reset.                                *)

NextTracking ==
  \/ \E d \in Deltas : Advance(d)
  \/ \E t \in {"none", "background", "focused"} : TabSignal(t)
  \/ UpdateTracking
  \/ PopupConnect
  \/ PopupDisconnect
  \/ UserActivity
  \/ TickBegin
  \/ \E idleState \in {"active", "idle"} : TickResume(idleState)
  \/ TogglePause
  \/ ManualReset

SpecTracking == Init /\ [][NextTracking]_vars

(* The StorageManager of src/lib/storage.js: reads, writes that succeed or *)
(* are rejected, back-off and the flush timer.                             *)

StoreDeltas == {backoffMs, backoffMs + flushSlack}

NextStore ==
  \/ \E d \in StoreDeltas : StoreAdvance(d)
  \/ LibGet
  \/ \E writeOk \in BOOLEAN : LibSet(writeOk)
  \/ \E f \in Fields, writeOk \in BOOLEAN : LibUpdate(f, writeOk)
  \/ \E writeOk \in BOOLEAN : LibFlush(writeOk)

SpecStore == Init /\ [][NextStore]_vars

(* The same StorageManager with calls of update that interleave at their   *)
(* await.                                                                  *)

NextUpdate ==
  \/ \E d \in StoreDeltas : StoreAdvance(d)
  \/ \E f \in Fields : LibUpdateBegin(f)
  \/ \E writeOk \in BOOLEAN : LibUpdateResume(writeOk)
  \/ \E writeOk \in BOOLEAN : LibFlush(writeOk)

SpecUpdate == Init /\ [][NextUpdate]_vars

(* The clock while writes of the usage to chrome.storage fail, on a finer  *)
(* grid of instants.                                                       *)

NextWriteFailure ==
  \/ \E d \in {ShortDelta, TickDelta} : Advance(d)
  \/ \E t \in {"none", "focused"} : TabSignal(t)
  \/ UpdateTracking
  \/ TickBegin
  \/ \E idleState \in {"active", "idle"} : TickResume(idleState)
  \/ TickResumeWriteFails
  \/ \E p \in FormData : UpdateSettings(p, FALSE)

SpecWriteFailure == Init /\ [][NextWriteFailure]_vars

(* Snooze requests, granted and rejected, from either setting of          *)
(* allowSnooze.                                                            *)

NextSnooze ==
  \/ \E d \in Deltas : Advance(d)
  \/ \E t \in {"none", "focused"} : TabSignal(t)
  \/ UpdateTracking
  \/ TickBegin
  \/ \E idleState \in {"active", "idle"} : TickResume(idleState)
  \/ SnoozeRequest
  \/ SnoozeTimerFire
  \/ \E p \in FormData, resetUsage \in BOOLEAN : UpdateSettings(p, resetUsage)

SpecSnooze == InitSnooze /\ [][NextSnooze]_vars

(* The lock and the ways out of it: the passcode and its bypass request,   *)
(* and CLEAR_LOCK.                                                         *)

NextBypass ==
  \/ \E d \in Deltas : Advance(d)
  \/ \E t \in {"none", "focused"} : TabSignal(t)
  \/ UpdateTracking
  \/ TickBegin
  \/ \E idleState \in {"active", "idle"} : TickResume(idleState)
  \/ ClearLock
  \/ \E passcode \in Passcodes : SetPasscode(passcode)
  \/ \E passcode \in Passcodes : BypassRequest(passcode)

SpecBypass == Init /\ [][NextBypass]_vars

(* Changes of the settings by UPDATE_SETTINGS commands of any sender and   *)
(* by the options page, with numbers within and outside their ranges.      *)

NextSettings ==
  \/ \E d \in Deltas : Advance(d)
  \/ \E t \in {"none", "focused"} : TabSignal(t)
  \/ UpdateTracking
  \/ TickBegin
  \/ \E idleState \in {"active", "idle"} : TickResume(idleState)
  \/ \E formData \in WireFormData : SaveSettings(formData)
  \/ \E p \in WireFormData, resetUsage \in BOOLEAN :
       UpdateSettings(p, resetUsage)

SpecSettings == Init /\ [][NextSettings]_vars

(* The clock with a tracking recompute that other handlers overtake while  *)
(* it is suspended.                                                        *)

NextInterleave ==
  \/ \E d \in Deltas : Advance(d)
  \/ \E t \in {"none", "focused"} : TabSignal(t)
  \/ UpdateTrackingBegin
  \/ UpdateTrackingResume
  \/ TickBegin
  \/ \E idleState \in {"active", "idle"} : TickResume(idleState)
  \/ TogglePause

SpecInterleave == Init /\ [][NextInterleave]_vars

(* What starts the clock: tracking recomputes, the popup's port and the    *)
(* resume of a pause, with the extension enabled or disabled.              *)

NextStart ==
  \/ \E d \in Deltas : Advance(d)
  \/ \E t \in {"none", "background", "focused"} : TabSignal(t)
  \/ UpdateTracking
  \/ PopupConnect
  \/ PopupDisconnect
  \/ TickBegin
  \/ \E idleState \in {"active", "idle"} : TickResume(idleState)
  \/ TogglePause

SpecStart == InitStart /\ [][NextStart]_vars

(* Tracking recomputes over every placement of the in-scope tab, with the  *)
(* popup, the lock, pause and reset.                                       *)

NextRecompute ==
  \/ \E d \in Deltas : Advance(d)
  \/ \E t \in {"none", "inactive", "background", "focused"} : TabSignal(t)
  \/ UpdateTracking
  \/ PopupConnect
  \/ PopupDisconnect
  \/ TickBegin
  \/ \E idleState \in {"active", "idle"} : TickResume(idleState)
  \/ TogglePause
  \/ ManualReset
  \/ \E p \in Toggles : UpdateSettings(p, FALSE)

SpecRecompute == Init /\ [][NextRecompute]_vars

(* Tracking recomputes inside and outside the suppress-stop window that a  *)
(* resume and a manual reset open.                                         *)

NextGrace ==
  \/ \E d \in Deltas : Advance(d)
  \/ \E t \in {"none", "inactive", "background", "focused"} : TabSignal(t)
  \/ GraceRecompute
  \/ UpdateTracking
  \/ PopupConnect
  \/ PopupDisconnect
  \/ TickBegin
  \/ \E idleState \in {"active", "idle"} : TickResume(idleState)
  \/ TogglePause
  \/ ManualReset

SpecGrace == Init /\ [][NextGrace]_vars

\* The lock transitions and the directives they send to the tab: the tab is
\* opened and refreshed, the limit and the lock mode are changed,
\* a snooze is asked for and runs out
NextDispatch ==
  \/ \E d \in Deltas : Advance(d)
  \/ TabOpen
  \/ \E delivered \in BOOLEAN : TabUpdated(delivered)
  \/ UpdateTrackingLocked
  \/ TickBegin
  \/ TickLock
  \/ \E delivered \in BOOLEAN : SnoozeRequestHide(delivered)
  \/ SnoozeTimerLock
  \/ \E p \in ModeForms : UpdateSettingsLock(p, FALSE)
  \/ \E l \in dispatch.lockPaths, delivered \in BOOLEAN : LockDispatch(l, delivered)
  \/ \E kind \in Kinds : DeliverySend(kind)
  \/ \E kind \in Kinds, outcome \in Outcomes : DeliveryAnswer(kind, outcome)

SpecDispatch == Init /\ [][NextDispatch]_vars

\* The calls of ensureContentScriptAndSendMessage of a tick-driven lock and
\* of the recompute while locked, for a tab that is opened, refreshed and
\* closed while they are suspended
NextDelivery ==
  \/ \E d \in Deltas : Advance(d)
  \/ TabOpen
  \/ TabClose
  \/ \E delivered \in BOOLEAN : TabUpdated(delivered)
  \/ UpdateTrackingLocked
  \/ TickBegin
  \/ TickLock
  \/ \E l \in dispatch.lockPaths, delivered \in BOOLEAN : LockDispatch(l, delivered)
  \/ \E kind \in Kinds : DeliverySend(kind)
  \/ \E kind \in Kinds, outcome \in Outcomes : DeliveryAnswer(kind, outcome)

SpecDelivery == Init /\ [][NextDelivery]_vars

\* The clock of a user who keeps the tab in front, is at times idle and
\* changes the daily limit
NextIdle ==
  \/ \E d \in Deltas : Advance(d)
  \/ TabOpen
  \/ UpdateTracking
  \/ TickBegin
  \/ TickOverlap
  \* the three states of chrome.idle.queryState, and "unavailable" for a host
  \* without chrome.idle or a query that throws
  \/ \E idleState \in {"active", "idle", "locked", "unavailable"} :
       TickResume(idleState)
  \/ \E l \in Limits : UpdateSettings([dailyLimitMin |-> l], FALSE)

SpecIdle == Init /\ [][NextIdle]_vars

\* Focus and tab signals and the recomputes they call, which take time
NextSignals ==
  \/ \E d \in Deltas : Advance(d)
  \/ \E t \in {"background", "focused"} : FocusSignal(t)
  \/ \E t \in {"none", "inactive", "background", "focused"} : TabActivated(t)
  \/ DebounceFire
  \/ UpdateTrackingDecide
  \/ UpdateTrackingFinish

SpecSignals == Init /\ [][NextSignals]_vars

\* the popup connects and disconnects while the tracking state is recomputed
NextPopup ==
  \/ \E d \in Deltas : Advance(d)
  \/ \E t \in {"background", "focused"} : FocusSignal(t)
  \/ \E t \in {"none", "inactive", "background", "focused"} : TabActivated(t)
  \/ DebounceFire
  \/ PopupPortConnect
  \/ PopupStartTimeout
  \/ PopupPortDisconnect
  \/ UpdateTrackingDecide
  \/ UpdateTrackingFinish

SpecPopup == Init /\ [][NextPopup]_vars

\* Settings that are saved in quick succession
NextDebounce ==
  \/ \E d \in Deltas : Advance(d)
  \/ \E t \in {"none", "focused"} : TabSignal(t)
  \/ UpdateTracking
  \/ TickBegin
  \/ \E idleState \in {"active", "idle"} : TickResume(idleState)
  \/ \E p \in FormData : UpdateSettingsDebounced(p)
  \/ \E p \in FormData, resetUsage \in BOOLEAN : UpdateSettings(p, resetUsage)

SpecDebounce == Init /\ [][NextDebounce]_vars

-----------------------------------------------------------------------------
(* Properties *)

\* C1: in every reachable state the persisted flags never have locked and
\* snoozed true at the same time.
C1_NeverLockedAndSnoozed ==
  ~(flags.locked /\ flags.snoozed)

\* a tick that counts, run with the extension enabled, not paused, not
\* snoozed and not yet locked
CountingTick ==
  /\ TickResume("active")
  /\ settings.enabled /\ ~flags.pausedToday /\ ~flags.snoozed /\ ~flags.locked

\* C2: with the extension enabled, not paused and not snoozed, a tick after
\* which currentUsageMs >= dailyLimitMin*60000 - 2000 sets locked, sets
\* frozenTimeUsed to dailyLimitMin*60000 and stops the clock; a tick that
\* leaves the usage below that threshold does not set locked.
C2_TickLocksAtLimit ==
  [][CountingTick =>
       LET limit == settings.dailyLimitMin * 60000
       IN IF timekeeper'.currentUsageMs >= limit - 2000
            THEN /\ flags'.locked
                 /\ flags'.frozenTimeUsed = limit
                 /\ timekeeper'.isLocked
                 /\ ~timekeeper'.tickInterval
                 /\ ~timekeeper'.isActive
            ELSE ~flags'.locked]_vars

\* C2 witness: a one-minute limit locked by a tick at 58 s of usage, with
\* frozenTimeUsed = 60000, and no command sent
C2_Witness ==
  /\ history.commands = 0
  /\ settings.dailyLimitMin = 1
  /\ timekeeper.currentUsageMs = 58000
  /\ flags.locked /\ flags.frozenTimeUsed = 60000
  /\ timekeeper.isLocked /\ ~timekeeper.tickInterval

\* C3: a granted snooze request with cooldownMin = c leaves usage 0 (stored
\* and in memory), snoozed true and locked false, and schedules the lock for
\* c minutes later; the timer stays scheduled until it fires, it can fire
\* once c minutes have elapsed, and when it fires the flags are locked, not
\* snoozed, with frozenTimeUsed = c*60000.
C3_SnoozeThenCooldownLock ==
  [][/\ (SnoozeRequest /\ snoozeResult.success) =>
          /\ usageToday'.millisActive = 0
          /\ timekeeper'.currentUsageMs = 0
          /\ flags'.snoozed /\ ~flags'.locked
          /\ snoozeTimer' = [pending |-> TRUE,
                             due |-> now + settings.cooldownMin * 60000,
                             cooldownMs |-> settings.cooldownMin * 60000]
     /\ (snoozeTimer.pending /\ ~SnoozeTimerFire) => snoozeTimer' = snoozeTimer
     /\ (snoozeTimer.pending /\ now >= snoozeTimer.due) => ENABLED SnoozeTimerFire
     /\ SnoozeTimerFire =>
          /\ now >= snoozeTimer.due
          /\ flags'.locked /\ ~flags'.snoozed
          /\ flags'.frozenTimeUsed = snoozeTimer.cooldownMs]_vars

\* C3 witness: the limit was reached, a snooze was granted, no pause, reset
\* or rollover came in between, and the timer has fired
C3_Witness ==
  /\ history.snoozedFromLock /\ ~history.superseded
  /\ history.commands = 1
  /\ ~snoozeTimer.pending
  /\ flags.locked /\ ~flags.snoozed /\ flags.snoozeUsedToday
  /\ flags.frozenTimeUsed = settings.cooldownMin * 60000

\* a snooze request that is neither switched off in the settings nor sent
\* within two seconds of the one before
SnoozeAsked ==
  /\ SnoozeRequest
  /\ settings.allowSnooze
  /\ now - globalService.lastSnoozeRequest >= 2000

\* C4: once a snooze request was granted on a day, every later request of
\* that day fails with 'Snooze already used today'; once a rollover has reset
\* the flags, the next request is granted again.
C4_OneSnoozePerDay ==
  [][SnoozeAsked =>
       /\ history.snoozedOn = today =>
            snoozeResult.error = "Snooze already used today"
       /\ (history.snoozedOn # today /\ usageToday.dateKey = today) =>
            snoozeResult.success]_vars

\* C5: after manualReset the stored usage and the in-memory counter are 0,
\* nudged, locked, pausedToday and snoozed are false, frozenTimeUsed is unset,
\* and timekeeper.isLocked and timekeeper.isPaused are false.
C5_ManualResetClearsAll ==
  [][ManualReset =>
       /\ usageToday'.millisActive = 0
       /\ timekeeper'.currentUsageMs = 0
       /\ ~flags'.nudged /\ ~flags'.locked /\ ~flags'.pausedToday
       /\ ~flags'.snoozed
       /\ flags'.frozenTimeUsed = Undefined
       /\ ~timekeeper'.isLocked /\ ~timekeeper'.isPaused]_vars

\* C5 witness: a manual reset has just run on a clock that was snoozed (the
\* timer of the snooze is still scheduled)
C5_Witness ==
  /\ globalService.lastResetRequestAt = now
  /\ snoozeTimer.pending /\ history.superseded
  /\ ~flags.snoozed /\ ~flags.locked
  /\ usageToday.millisActive = 0 /\ timekeeper.currentUsageMs = 0

\* C6: after a daily rollover from any state all stored flags are cleared,
\* the stored usage of the new day is 0, the in-memory counter is 0 and the
\* clock is no longer locked.
C6_RolloverReturnsToIdle ==
  [][(DailyResetAlarm /\ checkDailyReset) =>
       /\ flags' = DEFAULT_FLAGS
       /\ usageToday' = [millisActive |-> 0, dateKey |-> today]
       /\ timekeeper'.currentUsageMs = 0
       /\ ~timekeeper'.isLocked]_vars

\* C7: once a pause, a manual reset or a rollover has come between a granted
\* snooze and the end of its cooldown, the timer's transition does not take
\* place.
C7_SupersededTimerDoesNotFire ==
  [][history.superseded => ~SnoozeTimerFire]_vars

\* C8: between two resets of the usage no more than one nudge is sent,
\* whatever lock, unlock, pause or settings operations happen in between.
C8_OneNudge ==
  history.nudges <= 1

\* C9: while the clock is running, enabled, not paused and not locked, every
\* elapsed interval is counted once: a tick adds no more than the time
\* between the instant up to which ticks have counted and its own reading of
\* the clock, within one tick period, also when tick invocations overlap.
C9_EveryIntervalCountedOnce ==
  [][(/\ TickResume("active")
      /\ settings.enabled /\ ~flags.pausedToday /\ ~flags.locked
      /\ ~timekeeper.isLocked
      /\ timekeeper.tickInterval /\ timekeeper.isActive)
       => timekeeper'.currentUsageMs - timekeeper.currentUsageMs
            <= (Head(pendingTicks).now - history.countedUpTo) + tickFrequency
     ]_vars

\* C10: frozenTimeUsed is set exactly while locked.
C10_FrozenIffLocked ==
  flags.locked <=> flags.frozenTimeUsed # Undefined


\* C11: once a granted snooze has set snoozeUsedToday, the stored flags keep
\* it true through every step that is not the rollover of checkDailyReset:
\* pause, resume, lock, unlock, manual reset and settings updates included.
C11_SnoozeUsedStaysUntilRollover ==
  [][(flags.snoozeUsedToday /\ usageToday.dateKey = today)
       => flags'.snoozeUsedToday]_vars

\* C12: as long as the stored dateKey stays the same, the stored millisActive
\* does not decrease from one step to the next, and it is never negative.
C12_StoredUsageMonotonic ==
  [][/\ usageToday'.millisActive >= 0
     /\ usageToday'.dateKey = usageToday.dateKey
          => usageToday'.millisActive >= usageToday.millisActive]_vars


\* C13: a bypass request whose passcode differs from the configured one
\* leaves flags.locked, flags.frozenTimeUsed and timekeeper.isLocked as they
\* were.
C13_InvalidBypassKeepsLock ==
  [][\A passcode \in Passcodes :
       (/\ BypassRequest(passcode)
        /\ settings.passcodeHash # Null
        /\ settings.passcodeHash # passcode)
         => /\ flags'.locked = flags.locked
            /\ flags'.frozenTimeUsed = flags.frozenTimeUsed
            /\ timekeeper'.isLocked = timekeeper.isLocked]_vars

\* C13 witness: locked by a tick, a passcode configured, and a bypass request
\* with another passcode has been handled
C13_Witness ==
  /\ history.bypass = "invalid"
  /\ settings.passcodeHash # Null
  /\ flags.locked /\ flags.frozenTimeUsed = 60000 /\ timekeeper.isLocked

\* C14: a bypass request made while locked, with the configured passcode or
\* with no passcode configured, clears locked and frozenTimeUsed and unlocks
\* the clock.
C14_ValidBypassUnlocks ==
  [][\A passcode \in Passcodes :
       (/\ BypassRequest(passcode)
        /\ flags.locked
        /\ (settings.passcodeHash = Null \/ settings.passcodeHash = passcode))
         => /\ ~flags'.locked
            /\ flags'.frozenTimeUsed = Undefined
            /\ ~timekeeper'.isLocked]_vars


\* C15: checkDailyReset, called when the stored dateKey differs from the
\* current date, replaces usageToday and flags by their defaults for the new
\* date, after which the stored dateKey is the current date (a second call
\* finds nothing to do); called when the stored dateKey is the current date
\* it changes neither record.
C15_CheckDailyResetIdempotent ==
  [][DailyResetAlarm =>
       IF usageToday.dateKey # today
         THEN /\ usageToday' = [millisActive |-> 0, dateKey |-> today]
              /\ flags' = DEFAULT_FLAGS
              /\ usageToday'.dateKey = today'
         ELSE /\ usageToday' = usageToday
              /\ flags' = flags]_vars

\* C15 witness: usage was counted and the limit reached on day 1, the date
\* changed, and the alarm has rolled the records over to day 2
C15_Witness ==
  /\ today = 2 /\ history.alarmOn = 2 /\ history.commands = 0
  /\ timekeeper.currentUsageMs = 58000
  /\ usageToday = [millisActive |-> 0, dateKey |-> 2]
  /\ flags = DEFAULT_FLAGS

\* C16: when the daily_reset alarm of a new day fires, the stored usage is 0
\* and the stored flags are the defaults after it, whatever happened since
\* the previous reset.
C16_AlarmResetsTheDay ==
  [][(DailyResetAlarm /\ history.alarmOn # today)
       => /\ usageToday'.millisActive = 0
          /\ flags' = DEFAULT_FLAGS]_vars


\* C17: a rejected snooze request leaves the stored usage, the flags, the
\* clock and the cooldown timer as they were, and the reason it returns is
\* one that holds: 'Snooze not allowed' only when the settings forbid it,
\* 'Snooze already used today' only when a snooze was granted today, 'Please
\* wait ...' only within 2 s of the request before, 'Snooze in progress' only
\* between a grant and the end of its cooldown.
C17_RejectedSnoozeChangesNothing ==
  [][(SnoozeRequest /\ ~snoozeResult.success) =>
       /\ usageToday' = usageToday
       /\ flags' = flags
       /\ timekeeper' = timekeeper
       /\ snoozeTimer' = snoozeTimer
       /\ snoozeResult.error = "Snooze not allowed" => ~settings.allowSnooze
       /\ snoozeResult.error = "Snooze already used today"
            => (flags.snoozeUsedToday \/ flags.snoozed)
       /\ snoozeResult.error = "Please wait before requesting snooze again"
            => now - globalService.lastSnoozeRequest < 2000
       /\ snoozeResult.error = "Snooze in progress" => snoozeTimer.pending
    ]_vars


\* C18: a tick whose save of the usage fails still adds its elapsed time to
\* the in-memory counter and still locks when that counter has reached the
\* limit; after a failed save every counting tick goes on adding its elapsed
\* time; and the next tick that saves, or the next stop of the clock, leaves
\* the stored usage equal to the in-memory counter.
C18_WriteFailureLosesNoTime ==
  [][/\ TickResumeWriteFails =>
          /\ timekeeper'.currentUsageMs =
               timekeeper.currentUsageMs + Head(pendingTicks).deltaTime
          /\ (/\ settings.enabled /\ ~flags.pausedToday /\ ~flags.locked
              /\ ~flags.snoozed
              /\ timekeeper'.currentUsageMs >=
                   settings.dailyLimitMin * 60000 - 2000)
               => (flags'.locked /\ timekeeper'.isLocked)
     /\ (history.writeFailed /\ TickResume("active")) =>
          /\ timekeeper'.currentUsageMs =
               timekeeper.currentUsageMs + Head(pendingTicks).deltaTime
          /\ saveDue(timekeeper, Head(pendingTicks))
               => usageToday'.millisActive = timekeeper'.currentUsageMs
     /\ (history.writeFailed /\ timekeeper.tickInterval
           /\ ~timekeeper'.tickInterval)
          => usageToday'.millisActive = timekeeper'.currentUsageMs]_vars

\* C18 witness: a save has failed, the back-off has passed, and a later tick
\* has saved the whole in-memory counter
C18_Witness ==
  /\ history.writeFailed
  /\ timekeeper.writeBackoffUntil = 0
  /\ timekeeper.lastUsageSave = now
  /\ timekeeper.currentUsageMs > 0
  /\ usageToday.millisActive = timekeeper.currentUsageMs


\* C19: after every step, get returns for each field a version no older than
\* the last set or update of that field that the store accepted, and the
\* stored record holds for each field a version no older than before.
C19_NoStaleRead ==
  [][\A f \in Fields :
       /\ get(lib')[f] >= history'.libAccepted[f]
       /\ lib'.stored[f] >= lib.stored[f]]_vars


\* C20: a set or update made during the back-off is not sent to storage and
\* is merged into the pending record, which keeps what it held; a flush that
\* runs after the back-off and whose write succeeds stores the pending
\* record and empties the pending set; and whenever the pending set is empty
\* every accepted write is in storage.
C20_BackoffWritesFlushed ==
  [][/\ (history'.libWrites # history.libWrites /\ now < lib.backoffUntil) =>
          /\ lib'.stored = lib.stored
          /\ \A k \in Fields :
               history'.libAccepted[k] = history'.libWrites
                 => (k \in DOMAIN lib'.pending
                       /\ lib'.pending[k] = history'.libWrites)
          /\ \A k \in DOMAIN lib.pending :
               k \in DOMAIN lib'.pending /\ lib'.pending[k] >= lib.pending[k]
     /\ (LibFlush(TRUE) /\ now >= lib.backoffUntil /\ lib.pending # <<>>) =>
          /\ lib'.pending = <<>>
          /\ lib'.stored = lib.pending
     /\ lib'.pending = <<>> =>
          \A f \in Fields : lib'.stored[f] = history'.libAccepted[f]]_vars

\* C21: update(key, partial) merges: once every call of update has
\* completed, none of them rejected by chrome.storage, the record holds for
\* each field the value of the last call that wrote it, also when two calls
\* were suspended at their await at the same time.
C21_InterleavedUpdatesMerge ==
  (suspended.updates = <<>> /\ history.libFailures = 0)
    => \A f \in Fields : /\ get(lib)[f] = history.libAccepted[f]
                        /\ lib.stored[f] = history.libAccepted[f]

\* the numbers of a settings record are within their ranges
settingsInRange(se) ==
  /\ se.dailyLimitMin \in 1..1440
  /\ se.cooldownMin \in 1..60
  /\ se.resetHourLocal \in 0..23

\* C22: an UPDATE_SETTINGS command with dailyLimitMin outside 1..1440,
\* cooldownMin outside 1..60 or resetHourLocal outside 0..23 changes neither
\* the settings nor the usage nor the flags, and the stored settings stay
\* within these ranges.
C22_OutOfRangeSettingsRejected ==
  [][/\ \A p \in WireFormData, resetUsage \in BOOLEAN :
          (UpdateSettings(p, resetUsage) /\ ~settingsInRange(p))
            => /\ settings' = settings
               /\ usageToday' = usageToday
               /\ flags' = flags
     /\ settingsInRange(settings')]_vars

\* C23: whenever the stored flags say locked or paused and no operation is
\* suspended at an await, the tick timer is cancelled.
C23_StoppedClockHasNoTimer ==
  ((flags.locked \/ flags.pausedToday) /\ pendingTicks = <<>>
     /\ suspended.tracking = <<>>)
    => ~timekeeper.tickInterval

\* an UPDATE_SETTINGS command with the settings p takes the branch of the
\* immediate lock
locksImmediately(p) ==
  /\ settings.dailyLimitMin # p.dailyLimitMin
  /\ timekeeper.currentUsageMs >= p.dailyLimitMin * 60 * 1000 - tickBuffer

\* C24: the lock is applied once: while flags.locked is true the post-snooze
\* timer does not fire its lock, no UPDATE_SETTINGS command takes the branch
\* of the immediate lock, and no step that leaves the flags locked (a tick's
\* limit check among them) changes frozenTimeUsed.
C24_LockAppliedOnce ==
  [][flags.locked =>
       /\ ~SnoozeTimerFire
       /\ \A p \in FormData, resetUsage \in BOOLEAN :
            ~(UpdateSettings(p, resetUsage) /\ locksImmediately(p))
       /\ flags'.locked => flags'.frozenTimeUsed = flags.frozenTimeUsed]_vars

\* C25: the tick timer is created only while the extension is enabled, not
\* locked and not paused, and with the tick anchor set to the current time;
\* start() on a running clock changes nothing.
C25_StartOnlyWhenAllowed ==
  [][/\ (~timekeeper.tickInterval /\ timekeeper'.tickInterval)
          => /\ settings'.enabled
             /\ ~flags'.locked
             /\ ~flags'.pausedToday
             /\ timekeeper'.lastTickTime = now
     /\ timekeeper.tickInterval
          => start(timekeeper, usageToday, flags) = timekeeper]_vars

\* C26: outside the grace window a completed tracking recompute sets
\* isTracking to (an in-scope tab is the active tab of the focused window,
\* or the popup is open and an in-scope tab exists) and enabled and not
\* paused and not locked.
C26_TrackingDecision ==
  [][((UpdateTracking \/ PopupConnect) /\ ~suppressStops(globalService))
       => globalService'.isTracking
            = (/\ tabs = "focused" \/ (popupOpen' /\ tabs # "none")
               /\ settings.enabled
               /\ ~flags.pausedToday
               /\ ~flags.locked)]_vars

\* C27: while the suppress-stop window is open (now < suppressStopUntil,
\* set 1200 ms after a resume and 1500 ms after a manual reset) a tracking
\* recompute does not cancel a running tick timer and does not turn
\* isTracking from true to false, whatever the tabs and the popup say.
C27_GraceWindowKeepsClock ==
  [][(/\ GraceRecompute \/ UpdateTracking \/ PopupConnect
      /\ globalService.suppressStopUntil # Null
      /\ now < globalService.suppressStopUntil)
       => /\ timekeeper.tickInterval => timekeeper'.tickInterval
          /\ globalService.isTracking => globalService'.isTracking]_vars

\* a recompute has run inside the window with no in-scope tab left and the
\* popup closed; the clock is still running and isTracking is still true
C27_Witness ==
  /\ history.recomputedInGrace
  /\ globalService.suppressStopUntil # Null
  /\ now < globalService.suppressStopUntil
  /\ tabs = "none" /\ ~popupOpen
  /\ timekeeper.tickInterval
  /\ globalService.isTracking

\* a step in which a handler asks for SHOW_SOFT_LOCK to be sent to the tab:
\* the dispatch of a tick-driven lock in softlock mode, of the post-snooze
\* lock and of the immediate lock of UPDATE_SETTINGS, the blocking of a tab
\* that has finished loading, and the recompute while locked
requestsSoftLock ==
  \/ \E l \in dispatch.lockPaths, delivered \in BOOLEAN :
        /\ LockDispatch(l, delivered)
        /\ tabs # "none"
        /\ ~(l.path = "triggerLimit" /\ l.mode = "close")
  \/ \E delivered \in BOOLEAN :
        TabUpdated(delivered) /\ shouldBlockTab /\ settings.mode # "close"
  \/ UpdateTrackingLocked /\ ~flags.pausedToday /\ flags.locked /\ tabs # "none"

\* C28: while a delivery of SHOW_SOFT_LOCK to the tab is in progress, a
\* further request to deliver SHOW_SOFT_LOCK to it sends no message,
\* whichever handler makes the request
C28_DispatchDeduplicated ==
  [][("SHOW_SOFT_LOCK" \in dispatch.pendingMessages /\ requestsSoftLock)
       => dispatch'.sent = dispatch.sent]_vars

\* C29: a lock that was set while mode = close ends, for the in-scope tab,
\* with the close countdown shown or with the tab closed: its dispatch never
\* leaves the tab open without the countdown
C29_CloseModeClosesOrCounts ==
  [][\A l \in dispatch.lockPaths, delivered \in BOOLEAN :
       (LockDispatch(l, delivered) /\ l.mode = "close" /\ tabs # "none")
         => (dispatch'.screen = "countdown" \/ tabs' = "none")]_vars

\* the steps a call of ensureContentScriptAndSendMessage for the directive
\* kind has at most before it returns: 0 when no call is in progress
stepsLeft(dp, kind) ==
  IF \A d \in dp.deliveries : d.kind # kind THEN 0
  ELSE LET d == CHOOSE e \in dp.deliveries : e.kind = kind
       IN 2 * (3 - d.i) - (IF d.phase = "sent" THEN 1 ELSE 0)

\* C30: a call of ensureContentScriptAndSendMessage makes at most three
\* attempts, the second one second (two after an injection) and the third
\* two seconds after the failure before it; every step of the call brings
\* it nearer to its return, a success ends it at once, and the dedupe key
\* of a directive is held exactly while a call for it is in progress
C30_DeliveryTerminates ==
  [][/\ \A d \in dispatch'.deliveries : d.i < 3
     /\ dispatch'.pendingMessages = {d.kind : d \in dispatch'.deliveries}
     /\ \A kind \in Kinds :
          /\ DeliveryAnswer(kind, "ok")
               => /\ kind \notin dispatch'.pendingMessages
                  /\ \A d \in dispatch'.deliveries : d.kind # kind
          /\ (DeliverySend(kind) \/ \E outcome \in Outcomes :
                                       DeliveryAnswer(kind, outcome))
               => stepsLeft(dispatch', kind) < stepsLeft(dispatch, kind)
     /\ \A d \in dispatch'.deliveries \ dispatch.deliveries :
          /\ d.phase = "sent" => (d.i = 0 \/ now >= d.notBefore)
          /\ d.phase = "waiting"
               => /\ d.i = 1 => d.notBefore - now \in {1000, 2000}
                  /\ d.i = 2 => d.notBefore - now = 2000]_vars

\* the third attempt of a call is in flight, after two failures and their
\* delays, with the key still held
C30_Witness ==
  \E d \in dispatch.deliveries :
    /\ d.i = 2
    /\ d.phase = "sent"
    /\ now >= d.notBefore
    /\ d.kind \in dispatch.pendingMessages

\* C31: a tick whose idle check answers idle or locked moves lastTickTime to
\* the time the tick read and changes neither the counted usage, nor the
\* stored usage, nor the flags; a tick whose idle check is unavailable does
\* what a tick of an active user does
C31_IdleTickOnlyMovesAnchor ==
  [][/\ (\E idleState \in {"idle", "locked"} : TickResume(idleState))
          => /\ timekeeper'.lastTickTime = Head(pendingTicks).now
             /\ timekeeper'.currentUsageMs = timekeeper.currentUsageMs
             /\ usageToday' = usageToday
             /\ flags' = flags
     /\ TickResume("unavailable")
          => /\ TickResume("active")
             /\ timekeeper'.currentUsageMs
                  = timekeeper.currentUsageMs + Head(pendingTicks).deltaTime]_vars

\* the first interval was counted, the second tick found the user idle: the
\* anchor lies beyond everything that was counted
C31_Witness ==
  /\ pendingTicks = <<>>
  /\ timekeeper.tickInterval
  /\ history.countedUpTo > 0
  /\ timekeeper.lastTickTime > history.countedUpTo
  /\ timekeeper.currentUsageMs = TickDelta
  /\ ~flags.locked
  /\ ~timekeeper.isLocked

\* C32: the guard of a snooze request is held only while the request is at
\* work: snoozeInProgress is false unless a granted snooze still has its
\* timer to come
C32_GuardsReleased ==
  globalService.snoozeInProgress => snoozeTimer.pending

\* C33: when no tick and no recompute is suspended, the clock's copies of
\* the lock and of the pause agree with the persisted flags
C33_ClockAgreesWithFlags ==
  (pendingTicks = <<>> /\ suspended.tracking = <<>>)
    => /\ timekeeper.isLocked = flags.locked
       /\ timekeeper.isPaused = flags.pausedToday

\* C34: an UPDATE_SETTINGS that resets the persisted usage to 0 resets the
\* counter of the clock as well
C34_ResetUsageResetsCounter ==
  [][\A p \in FormData :
       UpdateSettings(p, TRUE)
         => /\ usageToday'.millisActive = 0
            /\ timekeeper'.currentUsageMs = 0]_vars

\* C35: once the ticks that were suspended during a manual reset or a snooze
\* have finished, the usage counted is at most the time that has passed
\* since the reset: none, at the instant of the reset
C35_SuspendedTickKeepsNoOldTime ==
  (/\ \/ globalService.lastResetRequestAt = now
      \/ snoozeTimer.pending /\ snoozeTimer.due = now + snoozeTimer.cooldownMs
   /\ pendingTicks = <<>>)
    => /\ timekeeper.currentUsageMs = 0
       /\ usageToday.millisActive = 0

\* C36: a tracking recompute, inside the grace window or outside it, ends
\* with isTracking set only if the extension is enabled, not paused and not
\* locked
C36_TrackingImpliesAllowed ==
  [][(GraceRecompute \/ UpdateTracking \/ PopupConnect)
       => (globalService'.isTracking
             => settings.enabled /\ ~flags.pausedToday /\ ~flags.locked)]_vars

\* C37: when no recompute is in progress and none is scheduled, isTracking
\* and the running state of the clock are what the present signals call for
C37_TrackingFollowsLastSignal ==
  (suspended.tracking = <<>> /\ ~suspended.debounce)
    => /\ globalService.isTracking
            = shouldTrack(timekeeper, globalService, settings, flags,
                          popupOpen)
       /\ timekeeper.tickInterval = globalService.isTracking

\* C38: the tab is marked in tabsWithOverlays only while the overlay has
\* been delivered to it or a delivery of it is still in progress
C38_MarkedOnlyIfDelivered ==
  dispatch.tabsWithOverlays
    => \/ dispatch.screen = "softlock"
       \/ "SHOW_SOFT_LOCK" \in dispatch.pendingMessages

\* C39: an UPDATE_SETTINGS that is answered with success has its values in
\* the persisted settings afterwards, also when it comes within 1 s of the
\* one before it
C39_AnsweredSettingsAreStored ==
  [][\A p \in FormData :
       (/\ UpdateSettingsDebounced(p)
             \/ \E resetUsage \in BOOLEAN : UpdateSettings(p, resetUsage)
        /\ updateSettingsResponse.success)
         => \A f \in DOMAIN p : settings'[f] = p[f]]_vars

\* C40: whenever no popup port is connected and no tracking recompute is in
\* flight, the once-per-second popup update timer is not running, also when
\* the popup disconnects while a recompute is suspended at an await
C40_NoPopupNoUpdateTimer ==
  (~popupOpen /\ suspended.tracking = <<>>) => ~suspended.popupUpdateInterval

=============================================================================
